---- MODULE Spec2Model ----
(***************************************************************************)
(* Model of the Rows n8n node: the vision-import file aggregation          *)
(* (importVisionData, importVisionDataFromAllItems, sendVisionImportRequest*)
(* and the part of Rows.execute that drives them), the file-type           *)
(* validation helpers, and the dependency-free multipart/form-data         *)
(* encoder (buildMultipartFormData).                                       *)
(*                                                                         *)
(* In the aggregation a string is a sequence of one-character strings; in  *)
(* the encoder a string is a sequence of code points and a buffer a        *)
(* sequence of bytes, so that splitting, lower-casing, escaping, UTF-8 and *)
(* percent-encoding are computed, not assumed.                             *)
(***************************************************************************)
EXTENDS Integers, Sequences, FiniteSets, TLC

VARIABLES
    items,            \* this.getInputData(): the input items
    operation,        \* node parameter 'operation'
    tablePosts,       \* table requests (append, overwrite) issued since execute started
    collectAllItems,  \* node parameter 'collectAllItems'
    continueOnFail,   \* this.continueOnFail()
    pc,               \* control position of execute / the running operation
    call,             \* the operation execute is in: "none", "single", "all" or "table"
    execI,            \* loop variable i of execute's per-item loop
    returnData,       \* execute's returnData
    itemIndex,        \* item the running aggregation call is reading
    k,                \* position in Object.entries(item.binary)
    allBinaryFiles,   \* files collected by the running call
    totalSize,        \* running byte total of the running call
    error,            \* error thrown by the running call ("none" if none)
    params,           \* node parameters read by sendVisionImportRequest
    reads,            \* getBinaryDataBuffer calls of the running call
    built,            \* form bodies built by the running call
    sent,             \* HTTP POSTs issued by the running call
    posts,            \* HTTP POSTs issued since execute started
    encFields,        \* buildMultipartFormData: the fields argument
    encFiles,         \* buildMultipartFormData: the files argument
    encPc,            \* "ready" before the call, "done" after it
    encBoundary,      \* the boundary generateBoundary returned
    encResult,        \* the {body, contentType} the call returned
    encEarlier        \* boundary and result of the earlier calls on these arguments

aggVars == <<items, operation, tablePosts, collectAllItems, continueOnFail, pc, call, execI, returnData,
             itemIndex, k, allBinaryFiles, totalSize, error, params, reads,
             built, sent, posts>>

encVars == <<encFields, encFiles, encPc, encBoundary, encResult, encEarlier>>

vars == <<aggVars, encVars>>

(***************************************************************************)
(* Bounds of the model.                                                    *)
(***************************************************************************)
MaxItems == 2
MaxNameLen == 4

(***************************************************************************)
(* utils/validation.ts                                                     *)
(***************************************************************************)
S_png  == <<"p", "n", "g">>
S_jpg  == <<"j", "p", "g">>
S_jpeg == <<"j", "p", "e", "g">>
S_webp == <<"w", "e", "b", "p">>
S_pdf  == <<"p", "d", "f">>
S_heic == <<"h", "e", "i", "c">>
S_csv  == <<"c", "s", "v">>
S_tsv  == <<"t", "s", "v">>
S_xls  == <<"x", "l", "s">>
S_xlsx == <<"x", "l", "s", "x">>

VISION_ALLOWED_FILE_TYPES ==
    {S_png, S_jpg, S_jpeg, S_webp, S_pdf, S_heic, S_csv, S_tsv, S_xls, S_xlsx}

\* File types that require 'create' mode
FILE_TYPES_REQUIRING_CREATE_MODE == {S_csv, S_tsv, S_xls, S_xlsx}

VISION_MAX_FILE_SIZE == 80 * 1024 * 1024
VISION_MAX_TOTAL_SIZE == 80 * 1024 * 1024
VISION_MAX_NR_OF_FILES == 50

UpperAlpha == <<"A", "B", "C", "D", "E", "F", "G", "H", "I", "J", "K", "L", "M",
                "N", "O", "P", "Q", "R", "S", "T", "U", "V", "W", "X", "Y", "Z">>
LowerAlpha == <<"a", "b", "c", "d", "e", "f", "g", "h", "i", "j", "k", "l", "m",
                "n", "o", "p", "q", "r", "s", "t", "u", "v", "w", "x", "y", "z">>

\* mutant: the extension is not lower-cased
LowerChar_identity(c) == c

\* String.prototype.toLowerCase on one character
LowerChar(c) ==
    IF \E n \in 1..26 : UpperAlpha[n] = c
    THEN LowerAlpha[CHOOSE n \in 1..26 : UpperAlpha[n] = c]
    ELSE c

toLowerCase(s) == [n \in 1..Len(s) |-> LowerChar(s[n])]

\* String.prototype.split('.'): the segments between the dots, left to right
RECURSIVE SplitFrom(_, _, _)
SplitFrom(s, n, cur) ==
    IF n > Len(s) THEN <<cur>>
    ELSE IF s[n] = "." THEN <<cur>> \o SplitFrom(s, n + 1, <<>>)
    ELSE SplitFrom(s, n + 1, Append(cur, s[n]))

splitDot(s) == SplitFrom(s, 1, <<>>)

getFileExtension(filename) ==
    LET parts == splitDot(filename)
    IN  IF Len(parts) > 1 THEN toLowerCase(parts[Len(parts)]) ELSE <<>>

validateFileType(filename) ==
    getFileExtension(filename) \in VISION_ALLOWED_FILE_TYPES

\* exported by validation.ts; no function of Rows.node.ts calls it
requiresCreateMode(filename) ==
    getFileExtension(filename) \in FILE_TYPES_REQUIRING_CREATE_MODE

(***************************************************************************)
(* Input items.  An item is [hasBinary, binary]; binary is the sequence    *)
(* Object.entries(item.binary) enumerates, each entry                      *)
(*   [key, present, fileName, mimeType, size, readable]                    *)
(* present = FALSE is a key whose value is undefined; fileName = <<>> is a *)
(* missing (or empty) fileName; mimeType = "" is a missing mimeType; size  *)
(* is the length of the buffer getBinaryDataBuffer returns and readable    *)
(* tells whether that call returns or throws.                              *)
(***************************************************************************)
Bin(key, fileName, mimeType, size, readable) ==
    [key |-> key, present |-> TRUE, fileName |-> fileName, mimeType |-> mimeType,
     size |-> size, readable |-> readable]

NullBin(key) ==
    [key |-> key, present |-> FALSE, fileName |-> <<>>, mimeType |-> "",
     size |-> 0, readable |-> FALSE]

Item(entries) == [hasBinary |-> TRUE, binary |-> entries]
NoBinaryItem == [hasBinary |-> FALSE, binary |-> <<>>]

K_data  == <<"d", "a", "t", "a">>
K_extra == <<"e", "x", "t", "r", "a">>
K_more  == <<"m", "o", "r", "e">>
K_x_png == <<"x", ".", "p", "n", "g">>
N_a_png == <<"a", ".", "p", "n", "g">>
N_B_PNG == <<"B", ".", "P", "N", "G">>
N_c_pdf == <<"c", ".", "p", "d", "f">>
N_a_exe == <<"a", ".", "e", "x", "e">>
N_file  == <<"f", "i", "l", "e">>
N_a_csv == <<"a", ".", "c", "s", "v">>
N_b_XLSX == <<"b", ".", "X", "L", "S", "X">>

\* getNodeParameter('binaryPropertyName', itemIndex, 'data'): the default
binaryPropertyName == K_data

Cap == VISION_MAX_FILE_SIZE

I_one         == Item(<<Bin(K_data, N_a_png, "image/png", 1, TRUE)>>)
I_three       == Item(<<Bin(K_extra, N_B_PNG, "", 2, TRUE),
                        Bin(K_data, N_a_png, "image/png", 1, TRUE),
                        Bin(K_x_png, <<>>, "image/png", 3, TRUE)>>)
I_onlyExtra   == Item(<<NullBin(K_data), Bin(K_extra, N_c_pdf, "", 1, TRUE)>>)
I_cap         == Item(<<Bin(K_data, N_a_png, "image/png", Cap, TRUE)>>)
I_over        == Item(<<Bin(K_data, N_a_png, "image/png", Cap + 1, TRUE)>>)
I_skip        == Item(<<Bin(K_data, N_a_png, "image/png", 1, TRUE),
                        Bin(K_extra, N_B_PNG, "", 5, FALSE),
                        NullBin(K_more),
                        Bin(K_x_png, N_c_pdf, "", 1, TRUE)>>)
I_extraBadBig == Item(<<Bin(K_data, N_a_png, "image/png", 1, TRUE),
                        Bin(K_extra, N_a_exe, "", Cap + 1, TRUE)>>)
I_extraNoName == Item(<<Bin(K_data, N_a_png, "image/png", 1, TRUE),
                        Bin(K_extra, <<>>, "", 1, TRUE)>>)
I_extraCap    == Item(<<Bin(K_data, N_a_png, "image/png", 1, TRUE),
                        Bin(K_extra, N_c_pdf, "", Cap, TRUE)>>)
I_badType     == Item(<<Bin(K_data, N_a_exe, "", Cap + 1, FALSE)>>)
I_noName      == Item(<<Bin(K_data, <<>>, "image/png", 1, TRUE)>>)
I_unreadable  == Item(<<Bin(K_data, N_a_png, "image/png", 1, FALSE)>>)

ItemKinds ==
    {NoBinaryItem, I_one, I_three, I_onlyExtra, I_cap, I_over, I_skip,
     I_extraBadBig, I_extraNoName, I_extraCap, I_badType, I_noName, I_unreadable}

RECURSIVE SeqsUpTo(_, _)
SeqsUpTo(S, n) ==
    IF n = 0 THEN {<<>>}
    ELSE LET shorter == SeqsUpTo(S, n - 1)
         IN  shorter \cup {Append(q, x) : q \in {r \in shorter : Len(r) = n - 1}, x \in S}

Digit == <<"0", "1", "2", "3", "4", "5", "6", "7", "8", "9">>
KeyNo(n) == <<"k", Digit[(n \div 10) + 1], Digit[(n % 10) + 1]>>

\* n items carrying one small valid file each
ManyItems(n) == [j \in 1..n |-> I_one]
\* one item carrying the designated file and n - 1 further valid files
WideItem(n) ==
    Item([j \in 1..n |-> IF j = 1 THEN Bin(K_data, N_a_png, "image/png", 1, TRUE)
                         ELSE Bin(KeyNo(j), N_c_pdf, "", 1, TRUE)])

\* batches around the file-count limit, for the collect-all call
ManyBatches ==
    {ManyItems(VISION_MAX_NR_OF_FILES), ManyItems(VISION_MAX_NR_OF_FILES + 1),
     <<WideItem(VISION_MAX_NR_OF_FILES), I_cap>>}

\* single items around the file-count limit, for either call
WideBatches ==
    {<<WideItem(VISION_MAX_NR_OF_FILES)>>, <<WideItem(VISION_MAX_NR_OF_FILES + 1)>>}

\* the batches of three items in which the middle one lacks the property
GapBatches ==
    {<<first, gap, last>> : first \in {I_one, I_three}, gap \in {NoBinaryItem, I_onlyExtra},
                            last \in {I_one, I_skip}}

\* single items whose designated file carries each short name over NameChars
NameChars == {"p", "n", "g", "P", "."}
N_FILE_PNG == <<"F", "I", "L", "E", ".", "P", "N", "G">>
N_file_png == <<"f", "i", "l", "e", ".", "p", "n", "g">>
N_tar_gz_Jpeg == <<"a", ".", "t", "a", "r", ".", "J", "p", "e", "g">>
FileNames == SeqsUpTo(NameChars, MaxNameLen) \cup {N_FILE_PNG, N_file_png, N_tar_gz_Jpeg}
NamedBatches ==
    {<<Item(<<Bin(K_data, name, "", 1, TRUE),
              Bin(K_extra, name, "", 1, TRUE)>>)>> : name \in FileNames}

\* batches whose files total exactly the total-size cap, and one byte more
I_most == Item(<<Bin(K_data, N_a_png, "image/png", VISION_MAX_TOTAL_SIZE - 1, TRUE)>>)
I_mostAndOne == Item(<<Bin(K_data, N_a_png, "image/png", VISION_MAX_TOTAL_SIZE - 1, TRUE),
                       Bin(K_extra, N_c_pdf, "", 1, TRUE)>>)
TotalBatches == {<<I_most, I_one>>, <<I_most, I_one, I_one>>, <<I_mostAndOne>>,
                 <<I_mostAndOne, I_one>>}

\* batches with spreadsheet files, as the designated file and as an extra one
I_sheet == Item(<<Bin(K_data, N_a_csv, "text/csv", 1, TRUE),
                  Bin(K_extra, N_b_XLSX, "", 1, TRUE)>>)
SheetBatches == {<<I_sheet>>, <<I_one, I_sheet>>}

\* the batches of the table operations: the items carry no binary data
TableBatches == SeqsUpTo({NoBinaryItem}, MaxItems)

SmallBatches ==
    SeqsUpTo(ItemKinds, MaxItems) \cup GapBatches \cup NamedBatches \cup TotalBatches
    \cup SheetBatches

(***************************************************************************)
(* Errors.  kind is the error of the spec's taxonomy, subject the string   *)
(* the message interpolates first, nodeError whether the thrown object is  *)
(* a NodeOperationError.                                                   *)
(***************************************************************************)
NoError == [kind |-> "none", subject |-> <<>>, nodeError |-> FALSE]
NodeOperationError(kind, subject) ==
    [kind |-> kind, subject |-> subject, nodeError |-> TRUE]
\* what context.helpers.getBinaryDataBuffer throws when the bytes cannot be read
BinaryReadFailure(key) ==
    [kind |-> "BinaryReadFailure", subject |-> key, nodeError |-> FALSE]
\* what context.helpers.httpRequestWithAuthentication throws
TransportError == [kind |-> "TransportError", subject |-> <<>>, nodeError |-> FALSE]

AggregationErrorKinds ==
    {"MissingBinaryData", "BinaryReadFailure", "UnsupportedFileType", "FileTooLarge",
     "TotalSizeExceeded", "TooManyFiles", "MissingRequiredParameter",
     "NoFilesProvided"}

(***************************************************************************)
(* Helpers shared by the two aggregation functions.                        *)
(***************************************************************************)
\* item.binary[binaryPropertyName], or NullBin when the key is not there
Lookup(item, key) ==
    IF \E n \in 1..Len(item.binary) : item.binary[n].key = key
    THEN item.binary[CHOOSE n \in 1..Len(item.binary) : item.binary[n].key = key]
    ELSE NullBin(key)

\* mutant: only the absence of item.binary is detected
LacksProperty_binaryOnly(item) == ~item.hasBinary

\* !item.binary || !item.binary[binaryPropertyName]
LacksProperty(item) ==
    ~item.hasBinary \/ ~Lookup(item, binaryPropertyName).present

\* mutant: a missing fileName is not replaced
NameOr_noFallback(fileName, fallback) == fileName

\* binaryData.fileName || 'file'   and   value.fileName || key
NameOr(fileName, fallback) == IF fileName = <<>> THEN fallback ELSE fileName

\* mutant: >= in place of >
ExceedsFileSize_inclusive(len) == len >= VISION_MAX_FILE_SIZE

\* fileData.length > VISION_MAX_FILE_SIZE
ExceedsFileSize(len) == len > VISION_MAX_FILE_SIZE

\* mutant: >= in place of >
ExceedsTotalSize_inclusive(total) == total >= VISION_MAX_TOTAL_SIZE

\* totalSize > VISION_MAX_TOTAL_SIZE
ExceedsTotalSize(total) == total > VISION_MAX_TOTAL_SIZE

\* mutant: >= in place of >
ExceedsFileCount_inclusive(n) == n >= VISION_MAX_NR_OF_FILES

\* allBinaryFiles.length > VISION_MAX_NR_OF_FILES
ExceedsFileCount(n) == n > VISION_MAX_NR_OF_FILES

\* the Buffer getBinaryDataBuffer(i, key) returns: the bytes of that property
BufferOf(i, e) == [item |-> i, key |-> e.key, length |-> e.size]

\* mutant: the file is put in front (unshift)
Push_front(files, file) == <<file>> \o files

\* allBinaryFiles.push(file)
Push(files, file) == Append(files, file)

\* mutant: the empty result is not detected
NoFiles_never(files) == FALSE

\* allBinaryFiles.length === 0
NoFiles(files) == Len(files) = 0

BinaryFile(i, e, filename) ==
    [data |-> BufferOf(i, e), filename |-> filename, mimeType |-> e.mimeType]

(***************************************************************************)
(* Node parameters read by sendVisionImportRequest.  They are read when    *)
(* the request is prepared; read = FALSE until then.                       *)
(***************************************************************************)
UnreadParams ==
    [read |-> FALSE, folderId |-> "", appId |-> "", tableId |-> "",
     mode |-> "create", merge |-> FALSE, instructions |-> ""]

Params(folderId, appId, tableId, mode, merge, instructions) ==
    [read |-> TRUE, folderId |-> folderId, appId |-> appId, tableId |-> tableId,
     mode |-> mode, merge |-> merge, instructions |-> instructions]

ParamSets ==
    {Params("", "", "", "create", FALSE, ""),
     Params("f1", "s1", "t1", "read", TRUE, "sum the totals"),
     Params("", "", "t1", "create", FALSE, ""),
     Params("", "s1", "", "read_simplified", FALSE, ""),
     Params("f1", "", "", "", TRUE, "")}

(***************************************************************************)
(* Rows.execute                                                            *)
(***************************************************************************)
StartCall(which, i) ==
    /\ call' = which
    /\ itemIndex' = i
    /\ k' = 0
    /\ allBinaryFiles' = <<>>
    /\ totalSize' = 0
    /\ error' = NoError
    /\ reads' = <<>>
    /\ built' = 0
    /\ sent' = 0

callVars == <<call, itemIndex, k, allBinaryFiles, totalSize, error, reads, built, sent>>

Throw(e) == /\ error' = e
            /\ pc' = "call_failed"

\* the encoder is not running
EncIdle ==
    /\ encFields = <<>>
    /\ encFiles = <<>>
    /\ encPc = "idle"
    /\ encBoundary = <<>>
    /\ encResult = [body |-> <<>>, contentType |-> <<>>]
    /\ encEarlier = <<>>

Init ==
    /\ \/ /\ operation = "importVision"
          /\ \/ items \in SmallBatches \cup WideBatches /\ collectAllItems \in BOOLEAN
             \/ items \in ManyBatches /\ collectAllItems = TRUE
       \/ /\ operation \in {"append", "overwrite"}
          /\ items \in TableBatches
          /\ collectAllItems \in BOOLEAN
    /\ tablePosts = <<>>
    /\ continueOnFail \in BOOLEAN
    /\ pc = "exec_start"
    /\ call = "none"
    /\ execI = 0
    /\ returnData = <<>>
    /\ itemIndex = 0
    /\ k = 0
    /\ allBinaryFiles = <<>>
    /\ totalSize = 0
    /\ error = NoError
    /\ params = UnreadParams
    /\ reads = <<>>
    /\ built = 0
    /\ sent = 0
    /\ posts = <<>>
    /\ EncIdle

\* execute, up to the choice between the collect-all call and the per-item loop
Exec_Start ==
    /\ pc = "exec_start"
    /\ UNCHANGED encVars
    /\ IF operation = "importVision" /\ collectAllItems /\ Len(items) > 0
       THEN /\ pc' = "aii_start"
            /\ StartCall("all", 0)
            /\ UNCHANGED execI
       ELSE /\ pc' = "exec_loop"
            /\ execI' = 1
            /\ UNCHANGED callVars
    /\ UNCHANGED <<items, operation, tablePosts, collectAllItems,
                   continueOnFail, returnData, params, posts>>

\* one test of the for loop and, for importVision, the call for item i
Exec_Loop ==
    /\ pc = "exec_loop"
    /\ UNCHANGED encVars
    /\ IF execI > Len(items)
       THEN /\ pc' = "exec_returned"
            /\ UNCHANGED <<execI, callVars>>
       ELSE IF operation \in {"append", "overwrite"}
       THEN /\ pc' = "table_parse"
            /\ StartCall("table", execI)
            /\ UNCHANGED execI
       ELSE IF ~collectAllItems
       THEN /\ pc' = "ivd_check"
            /\ StartCall("single", execI)
            /\ UNCHANGED execI
       ELSE /\ execI' = execI + 1
            /\ UNCHANGED <<pc, callVars>>
    /\ UNCHANGED <<items, operation, tablePosts, collectAllItems,
                   continueOnFail, returnData, params, posts>>

\* mutant: after the collect-all call execute falls through to the loop
Exec_Result_fallsThrough ==
    /\ pc = "call_returned"
    /\ UNCHANGED encVars
    /\ returnData' = Append(returnData,
         [ok |-> TRUE, response |-> Len(posts) + Len(tablePosts), error |-> "none",
          pairedItem |-> IF call = "all" THEN 0 ELSE execI - 1])
    /\ pc' = "exec_loop"
    /\ execI' = execI + 1
    /\ UNCHANGED <<items, operation, tablePosts, collectAllItems,
                   continueOnFail, callVars, params, posts>>

\* the operation returned: returnData.push({json: result, pairedItem})
Exec_Result ==
    /\ pc = "call_returned"
    /\ UNCHANGED encVars
    /\ returnData' = Append(returnData,
         [ok |-> TRUE, response |-> Len(posts) + Len(tablePosts), error |-> "none",
          pairedItem |-> IF call = "all" THEN 0 ELSE execI - 1])
    /\ IF call = "all"
       THEN pc' = "exec_returned" /\ UNCHANGED execI
       ELSE pc' = "exec_loop" /\ execI' = execI + 1
    /\ UNCHANGED <<items, operation, tablePosts, collectAllItems,
                   continueOnFail, callVars, params, posts>>

\* mutant: without continueOnFail the error is dropped and the loop goes on
Exec_Catch_swallows ==
    /\ pc = "call_failed"
    /\ UNCHANGED encVars
    /\ IF continueOnFail
       THEN /\ returnData' = Append(returnData,
                 [ok |-> FALSE, response |-> 0, error |-> error.kind,
                  pairedItem |-> IF call = "all" THEN 0 ELSE execI - 1])
            /\ IF call = "all"
               THEN pc' = "exec_returned" /\ UNCHANGED execI
               ELSE pc' = "exec_loop" /\ execI' = execI + 1
       ELSE /\ IF call = "all"
               THEN pc' = "exec_thrown" /\ UNCHANGED execI
               ELSE pc' = "exec_loop" /\ execI' = execI + 1
            /\ UNCHANGED returnData
    /\ UNCHANGED <<items, operation, tablePosts, collectAllItems,
                   continueOnFail, callVars, params, posts>>

\* the operation threw: the catch blocks of execute
Exec_Catch ==
    /\ pc = "call_failed"
    /\ UNCHANGED encVars
    /\ IF continueOnFail
       THEN /\ returnData' = Append(returnData,
                 [ok |-> FALSE, response |-> 0, error |-> error.kind,
                  pairedItem |-> IF call = "all" THEN 0 ELSE execI - 1])
            /\ IF call = "all"
               THEN pc' = "exec_returned" /\ UNCHANGED execI
               ELSE pc' = "exec_loop" /\ execI' = execI + 1
       ELSE /\ pc' = "exec_thrown"
            /\ UNCHANGED <<returnData, execI>>
    /\ UNCHANGED <<items, operation, tablePosts, collectAllItems,
                   continueOnFail, callVars, params, posts>>

(***************************************************************************)
(* appendDataToTable(context, itemIndex) and                               *)
(* overwriteDataInTable(context, itemIndex): the data parameter is parsed  *)
(* and checked, then the request is POSTed.                                *)
(***************************************************************************)
\* what JSON.parse and the array-of-arrays test make of the data parameter
DataOutcomes == {"rows", "notJson", "notRows"}

\* JSON.parse(dataString) and the test that data is an array of arrays
Table_Parse ==
    /\ pc = "table_parse"
    /\ UNCHANGED encVars
    /\ \E data \in DataOutcomes :
         IF data = "rows"
         THEN pc' = "table_post" /\ UNCHANGED error
         ELSE Throw(NodeOperationError("InvalidData", <<>>))
    /\ UNCHANGED <<items, operation, tablePosts, collectAllItems, continueOnFail, call,
                   execI, returnData, itemIndex, k, allBinaryFiles, totalSize, params,
                   reads, built, sent, posts>>

\* the POST of the values; the transport returns a response or throws
Table_Post ==
    /\ pc = "table_post"
    /\ UNCHANGED encVars
    /\ sent' = sent + 1
    /\ tablePosts' = Append(tablePosts, [operation |-> operation, item |-> itemIndex])
    /\ \/ pc' = "call_returned" /\ UNCHANGED error
       \/ Throw(TransportError)
    /\ UNCHANGED <<items, operation, collectAllItems, continueOnFail, call, execI,
                   returnData, itemIndex, k, allBinaryFiles, totalSize, params, reads,
                   built, posts>>

(***************************************************************************)
(* The scan of one further binary property (the body of the                *)
(* for (const [key, value] of Object.entries(item.binary)) loops).         *)
(***************************************************************************)
\* key !== binaryPropertyName && value
IsExtra(e) == e.key # binaryPropertyName /\ e.present

\* mutant: the type of a further file is checked before its size
TryOutcome_typeFirst(e) ==
    LET additionalFileName == NameOr(e.fileName, e.key)
    IN  IF ~e.readable THEN BinaryReadFailure(e.key)
        ELSE IF ~validateFileType(additionalFileName)
        THEN NodeOperationError("UnsupportedFileType", additionalFileName)
        ELSE IF ExceedsFileSize(e.size)
        THEN NodeOperationError("FileTooLarge", additionalFileName)
        ELSE NoError

\* what the try block throws for entry e (NoError when it completes)
TryOutcome(e) ==
    LET additionalFileName == NameOr(e.fileName, e.key)
    IN  IF ~e.readable THEN BinaryReadFailure(e.key)
        ELSE IF ExceedsFileSize(e.size)
        THEN NodeOperationError("FileTooLarge", additionalFileName)
        ELSE IF ~validateFileType(additionalFileName)
        THEN NodeOperationError("UnsupportedFileType", additionalFileName)
        ELSE NoError

\* mutant: the catch block rethrows whatever it caught
CatchRethrows_always(e) == TRUE

\* catch (error) { if (error instanceof NodeOperationError) throw error; }
CatchRethrows(e) == e.nodeError

\* one iteration of the loop over the entries of item i; the caller sets pc
\* and k when the iteration completes without throwing
ScanEntry(i, e) ==
    IF ~IsExtra(e)
    THEN /\ UNCHANGED <<reads, totalSize, allBinaryFiles, error>>
         /\ UNCHANGED pc
    ELSE LET thrown == TryOutcome(e)
         IN  /\ reads' = Append(reads, <<i, e.key>>)
             /\ totalSize' = IF e.readable THEN totalSize + e.size ELSE totalSize
             /\ IF thrown = NoError
                THEN /\ allBinaryFiles' =
                          Push(allBinaryFiles, BinaryFile(i, e, NameOr(e.fileName, e.key)))
                     /\ UNCHANGED <<error, pc>>
                ELSE IF CatchRethrows(thrown)
                THEN /\ Throw(thrown)
                     /\ UNCHANGED allBinaryFiles
                ELSE UNCHANGED <<allBinaryFiles, error, pc>>

(***************************************************************************)
(* importVisionData(context, itemIndex)                                    *)
(***************************************************************************)
\* presence of the designated property and its file-type check
IVD_Check ==
    /\ pc = "ivd_check"
    /\ UNCHANGED encVars
    /\ LET item == items[itemIndex]
           binaryData == Lookup(item, binaryPropertyName)
           fileName == NameOr(binaryData.fileName, N_file)
       IN  IF LacksProperty(item)
           THEN Throw(NodeOperationError("MissingBinaryData", binaryPropertyName))
           ELSE IF ~validateFileType(fileName)
           THEN Throw(NodeOperationError("UnsupportedFileType", getFileExtension(fileName)))
           ELSE pc' = "ivd_read" /\ UNCHANGED error
    /\ UNCHANGED <<items, operation, tablePosts, collectAllItems,
                   continueOnFail, call, execI, returnData,
                   itemIndex, k, allBinaryFiles, totalSize, params, reads, built,
                   sent, posts>>

\* the byte read of the designated property, its size check and the first push
IVD_Read ==
    /\ pc = "ivd_read"
    /\ UNCHANGED encVars
    /\ LET binaryData == Lookup(items[itemIndex], binaryPropertyName)
       IN  /\ reads' = Append(reads, <<itemIndex, binaryPropertyName>>)
           /\ IF ~binaryData.readable
              THEN /\ Throw(BinaryReadFailure(binaryPropertyName))
                   /\ UNCHANGED <<allBinaryFiles, totalSize, k>>
              ELSE IF ExceedsFileSize(binaryData.size)
              THEN /\ Throw(NodeOperationError("FileTooLarge", <<>>))
                   /\ UNCHANGED <<allBinaryFiles, totalSize, k>>
              ELSE /\ totalSize' = binaryData.size
                   /\ allBinaryFiles' =
                        Push(<<>>, BinaryFile(itemIndex, binaryData,
                                              NameOr(binaryData.fileName, N_file)))
                   /\ k' = 1
                   /\ pc' = "ivd_extra"
                   /\ UNCHANGED error
    /\ UNCHANGED <<items, operation, tablePosts, collectAllItems,
                   continueOnFail, call, execI, returnData,
                   itemIndex, params, built, sent, posts>>

\* one iteration of the scan of the item's other binary properties
IVD_Extra ==
    /\ pc = "ivd_extra"
    /\ UNCHANGED encVars
    /\ LET entries == items[itemIndex].binary
       IN  IF k > Len(entries)
           THEN /\ pc' = "ivd_total"
                /\ UNCHANGED <<k, reads, totalSize, allBinaryFiles, error>>
           ELSE /\ ScanEntry(itemIndex, entries[k])
                /\ k' = k + 1
    /\ UNCHANGED <<items, operation, tablePosts, collectAllItems,
                   continueOnFail, call, execI, returnData,
                   itemIndex, params, built, sent, posts>>

\* the total-size check and the call of sendVisionImportRequest
IVD_Total ==
    /\ pc = "ivd_total"
    /\ UNCHANGED encVars
    /\ IF ExceedsTotalSize(totalSize)
       THEN Throw(NodeOperationError("TotalSizeExceeded", <<>>))
       ELSE pc' = "svir_validate" /\ UNCHANGED error
    /\ UNCHANGED <<items, operation, tablePosts, collectAllItems,
                   continueOnFail, call, execI, returnData,
                   itemIndex, k, allBinaryFiles, totalSize, params, reads, built,
                   sent, posts>>

(***************************************************************************)
(* importVisionDataFromAllItems(context)                                   *)
(***************************************************************************)
\* the guard on an empty input and the initialisation of the accumulators
AII_Start ==
    /\ pc = "aii_start"
    /\ UNCHANGED encVars
    /\ IF Len(items) = 0
       THEN Throw(NodeOperationError("NoInputItems", <<>>)) /\ UNCHANGED itemIndex
       ELSE pc' = "aii_item" /\ itemIndex' = 1 /\ UNCHANGED error
    /\ UNCHANGED <<items, operation, tablePosts, collectAllItems,
                   continueOnFail, call, execI, returnData,
                   k, allBinaryFiles, totalSize, params, reads, built, sent, posts>>

\* mutant: the further properties of an item without the designated property
\* are scanned all the same
AII_Item_scansAnyway ==
    /\ pc = "aii_item"
    /\ UNCHANGED encVars
    /\ IF itemIndex > Len(items)
       THEN pc' = "aii_final" /\ UNCHANGED <<itemIndex, error, k>>
       ELSE LET item == items[itemIndex]
                binaryData == Lookup(item, binaryPropertyName)
                fileName == NameOr(binaryData.fileName, N_file)
            IN  IF LacksProperty(item)
                THEN pc' = "aii_extra" /\ k' = 1 /\ UNCHANGED <<itemIndex, error>>
                ELSE IF ~validateFileType(fileName)
                THEN /\ Throw(NodeOperationError("UnsupportedFileType", fileName))
                     /\ UNCHANGED <<itemIndex, k>>
                ELSE pc' = "aii_read" /\ UNCHANGED <<itemIndex, error, k>>
    /\ UNCHANGED <<items, operation, tablePosts, collectAllItems,
                   continueOnFail, call, execI, returnData,
                   allBinaryFiles, totalSize, params, reads, built, sent, posts>>

\* the loop test, the skip of an item without the property, the type check
AII_Item ==
    /\ pc = "aii_item"
    /\ UNCHANGED encVars
    /\ IF itemIndex > Len(items)
       THEN pc' = "aii_final" /\ UNCHANGED <<itemIndex, error>>
       ELSE LET item == items[itemIndex]
                binaryData == Lookup(item, binaryPropertyName)
                fileName == NameOr(binaryData.fileName, N_file)
            IN  IF LacksProperty(item)
                THEN itemIndex' = itemIndex + 1 /\ UNCHANGED <<pc, error>>
                ELSE IF ~validateFileType(fileName)
                THEN /\ Throw(NodeOperationError("UnsupportedFileType", fileName))
                     /\ UNCHANGED itemIndex
                ELSE pc' = "aii_read" /\ UNCHANGED <<itemIndex, error>>
    /\ UNCHANGED <<items, operation, tablePosts, collectAllItems,
                   continueOnFail, call, execI, returnData,
                   k, allBinaryFiles, totalSize, params, reads, built, sent, posts>>

\* mutant: an unreadable designated property is skipped like an absent one
AII_Read_skipsUnreadable ==
    /\ pc = "aii_read"
    /\ UNCHANGED encVars
    /\ LET binaryData == Lookup(items[itemIndex], binaryPropertyName)
           fileName == NameOr(binaryData.fileName, N_file)
       IN  /\ reads' = Append(reads, <<itemIndex, binaryPropertyName>>)
           /\ IF ~binaryData.readable
              THEN /\ pc' = "aii_item"
                   /\ itemIndex' = itemIndex + 1
                   /\ UNCHANGED <<allBinaryFiles, totalSize, k, error>>
              ELSE IF ExceedsFileSize(binaryData.size)
              THEN /\ Throw(NodeOperationError("FileTooLarge", fileName))
                   /\ UNCHANGED <<allBinaryFiles, totalSize, k, itemIndex>>
              ELSE /\ totalSize' = totalSize + binaryData.size
                   /\ allBinaryFiles' =
                        Push(allBinaryFiles, BinaryFile(itemIndex, binaryData, fileName))
                   /\ k' = 1
                   /\ pc' = "aii_extra"
                   /\ UNCHANGED <<error, itemIndex>>
    /\ UNCHANGED <<items, operation, tablePosts, collectAllItems,
                   continueOnFail, call, execI, returnData,
                   params, built, sent, posts>>

\* the byte read of the designated property of item i, its size check, the push
AII_Read ==
    /\ pc = "aii_read"
    /\ UNCHANGED encVars
    /\ LET binaryData == Lookup(items[itemIndex], binaryPropertyName)
           fileName == NameOr(binaryData.fileName, N_file)
       IN  /\ reads' = Append(reads, <<itemIndex, binaryPropertyName>>)
           /\ IF ~binaryData.readable
              THEN /\ Throw(BinaryReadFailure(binaryPropertyName))
                   /\ UNCHANGED <<allBinaryFiles, totalSize, k>>
              ELSE IF ExceedsFileSize(binaryData.size)
              THEN /\ Throw(NodeOperationError("FileTooLarge", fileName))
                   /\ UNCHANGED <<allBinaryFiles, totalSize, k>>
              ELSE /\ totalSize' = totalSize + binaryData.size
                   /\ allBinaryFiles' =
                        Push(allBinaryFiles, BinaryFile(itemIndex, binaryData, fileName))
                   /\ k' = 1
                   /\ pc' = "aii_extra"
                   /\ UNCHANGED error
    /\ UNCHANGED <<items, operation, tablePosts, collectAllItems,
                   continueOnFail, call, execI, returnData,
                   itemIndex, params, built, sent, posts>>

\* one iteration of the scan of item i's other binary properties
AII_Extra ==
    /\ pc = "aii_extra"
    /\ UNCHANGED encVars
    /\ LET entries == items[itemIndex].binary
       IN  IF k > Len(entries)
           THEN /\ pc' = "aii_item"
                /\ itemIndex' = itemIndex + 1
                /\ UNCHANGED <<k, reads, totalSize, allBinaryFiles, error>>
           ELSE /\ ScanEntry(itemIndex, entries[k])
                /\ k' = k + 1
                /\ UNCHANGED itemIndex
    /\ UNCHANGED <<items, operation, tablePosts, collectAllItems,
                   continueOnFail, call, execI, returnData,
                   params, built, sent, posts>>

\* mutant: the total size is checked before the number of files
AII_Final_sizeFirst ==
    /\ pc = "aii_final"
    /\ UNCHANGED encVars
    /\ IF NoFiles(allBinaryFiles)
       THEN Throw(NodeOperationError("NoFilesProvided", binaryPropertyName))
       ELSE IF ExceedsTotalSize(totalSize)
       THEN Throw(NodeOperationError("TotalSizeExceeded", <<>>))
       ELSE IF ExceedsFileCount(Len(allBinaryFiles))
       THEN Throw(NodeOperationError("TooManyFiles", <<>>))
       ELSE pc' = "svir_validate" /\ UNCHANGED error
    /\ UNCHANGED <<items, operation, tablePosts, collectAllItems,
                   continueOnFail, call, execI, returnData,
                   itemIndex, k, allBinaryFiles, totalSize, params, reads, built,
                   sent, posts>>

\* the checks after the loop and the call of sendVisionImportRequest
AII_Final ==
    /\ pc = "aii_final"
    /\ UNCHANGED encVars
    /\ IF NoFiles(allBinaryFiles)
       THEN Throw(NodeOperationError("NoFilesProvided", binaryPropertyName))
       ELSE IF ExceedsFileCount(Len(allBinaryFiles))
       THEN Throw(NodeOperationError("TooManyFiles", <<>>))
       ELSE IF ExceedsTotalSize(totalSize)
       THEN Throw(NodeOperationError("TotalSizeExceeded", <<>>))
       ELSE pc' = "svir_validate" /\ UNCHANGED error
    /\ UNCHANGED <<items, operation, tablePosts, collectAllItems,
                   continueOnFail, call, execI, returnData,
                   itemIndex, k, allBinaryFiles, totalSize, params, reads, built,
                   sent, posts>>

(***************************************************************************)
(* sendVisionImportRequest(context, itemIndex, allBinaryFiles)             *)
(***************************************************************************)
\* mutant: the two identifiers are exchanged in the test (appId && !tableId)
TableWithoutSpreadsheet_swapped(p) == p.appId # "" /\ p.tableId = ""

\* tableId && !appId
TableWithoutSpreadsheet(p) == p.tableId # "" /\ p.appId = ""

\* formData.append('files', file.data, {filename, contentType})
FilePart(file) ==
    [name |-> "files", data |-> file.data, filename |-> file.filename,
     contentType |-> IF file.mimeType # "" THEN file.mimeType
                     ELSE "application/octet-stream"]

Field(name, value) == [name |-> name, value |-> value]
FieldIf(cond, name, value) == IF cond THEN <<Field(name, value)>> ELSE <<>>

\* the scalar fields appended to the form, in the order of the appends
FormFields(p) ==
    FieldIf(p.folderId # "", "folder_id", p.folderId)
    \o FieldIf(p.appId # "", "app_id", p.appId)
    \o FieldIf(p.tableId # "", "table_id", p.tableId)
    \o FieldIf(p.mode # "", "mode", p.mode)
    \o <<Field("merge", IF p.merge THEN "true" ELSE "false")>>
    \o FieldIf(p.instructions # "", "instructions", p.instructions)

\* mutant: the table/spreadsheet check is made after the form has been built
SVIR_Validate_afterBuild ==
    /\ pc = "svir_validate"
    /\ UNCHANGED encVars
    /\ built' = built + 1
    /\ \E p \in (IF params.read THEN {params} ELSE ParamSets) :
         /\ params' = p
         /\ IF TableWithoutSpreadsheet(p)
            THEN Throw(NodeOperationError("MissingRequiredParameter", <<>>))
            ELSE pc' = "svir_post" /\ UNCHANGED error
    /\ UNCHANGED <<items, operation, tablePosts, collectAllItems,
                   continueOnFail, call, execI, returnData,
                   itemIndex, k, allBinaryFiles, totalSize, reads, sent, posts>>

\* the reads of folderId, appId, tableId and the table/spreadsheet check
SVIR_Validate ==
    /\ pc = "svir_validate"
    /\ UNCHANGED encVars
    /\ \E p \in (IF params.read THEN {params} ELSE ParamSets) :
         /\ params' = p
         /\ IF TableWithoutSpreadsheet(p)
            THEN Throw(NodeOperationError("MissingRequiredParameter", <<>>))
            ELSE pc' = "svir_post" /\ UNCHANGED error
    /\ UNCHANGED <<items, operation, tablePosts, collectAllItems,
                   continueOnFail, call, execI, returnData,
                   itemIndex, k, allBinaryFiles, totalSize, reads, built, sent, posts>>

\* the form is built and POSTed; the transport returns a response or throws
SVIR_Post ==
    /\ pc = "svir_post"
    /\ UNCHANGED encVars
    /\ built' = built + 1
    /\ sent' = sent + 1
    /\ posts' = Append(posts,
         [files |-> [n \in 1..Len(allBinaryFiles) |-> FilePart(allBinaryFiles[n])],
          fields |-> FormFields(params)])
    /\ \/ pc' = "call_returned" /\ UNCHANGED error
       \/ Throw(TransportError)
    /\ UNCHANGED <<items, operation, tablePosts, collectAllItems,
                   continueOnFail, call, execI, returnData,
                   itemIndex, k, allBinaryFiles, totalSize, params, reads>>

Next ==
    \/ Exec_Start
    \/ Exec_Loop
    \/ Exec_Result
    \/ Exec_Catch
    \/ IVD_Check
    \/ IVD_Read
    \/ IVD_Extra
    \/ IVD_Total
    \/ AII_Start
    \/ AII_Item
    \/ AII_Read
    \/ AII_Extra
    \/ AII_Final
    \/ SVIR_Validate
    \/ SVIR_Post
    \/ Table_Parse
    \/ Table_Post

Spec == Init /\ [][Next]_vars

(***************************************************************************)
(* The multipart/form-data encoder.  A string is a sequence of code        *)
(* points, a Buffer a sequence of bytes.                                   *)
(***************************************************************************)
\* the printable ASCII characters, U+0020 to U+007E in order (the grave
\* accent, which a string of the language cannot hold, by its code point)
AsciiTable == <<" ", "!", "\"", "#", "$", "%", "&", "'", "(", ")", "*", "+",
                ",", "-", ".", "/", "0", "1", "2", "3", "4", "5", "6", "7",
                "8", "9", ":", ";", "<", "=", ">", "?", "@", "A", "B", "C",
                "D", "E", "F", "G", "H", "I", "J", "K", "L", "M", "N", "O",
                "P", "Q", "R", "S", "T", "U", "V", "W", "X", "Y", "Z", "[",
                "\\", "]", "^", "_", "U+0060", "a", "b", "c", "d", "e", "f", "g",
                "h", "i", "j", "k", "l", "m", "n", "o", "p", "q", "r", "s",
                "t", "u", "v", "w", "x", "y", "z", "{", "|", "}", "~">>

\* the code point of a printable ASCII character
Code(c) == 31 + CHOOSE n \in 1..Len(AsciiTable) : AsciiTable[n] = c

\* the string written with the given printable ASCII characters
A(chars) == [n \in 1..Len(chars) |-> Code(chars[n])]

RECURSIVE Flatten(_)
Flatten(seqs) == IF seqs = <<>> THEN <<>> ELSE Head(seqs) \o Flatten(Tail(seqs))

\* String.prototype.replace(/c/g, rep)
ReplaceAll(s, c, rep) == Flatten([n \in 1..Len(s) |-> IF s[n] = c THEN rep ELSE <<s[n]>>])

\* the UTF-8 bytes of one code point (code points below U+10000)
Utf8(c) ==
    IF c < 128 THEN <<c>>
    ELSE IF c < 2048 THEN <<192 + (c \div 64), 128 + (c % 64)>>
    ELSE <<224 + (c \div 4096), 128 + ((c \div 64) % 64), 128 + (c % 64)>>

\* Buffer.from(string) and Buffer.from(string, 'utf8')
BufferFrom(s) == Flatten([n \in 1..Len(s) |-> Utf8(s[n])])

CRLF == <<13, 10>>
BACKSLASH == Code("\\")
DQUOTE == Code("\"")
APOSTROPHE == Code("'")

L_dashes == A(<<"-", "-">>)
L_boundaryPrefix == A(<<"-", "-", "-", "-", "n", "8", "n", "-", "r", "o",
                        "w", "s", "-">>)
L_dash == A(<<"-">>)
L_dispositionName == A(<<"C", "o", "n", "t", "e", "n", "t", "-", "D", "i",
                         "s", "p", "o", "s", "i", "t", "i", "o", "n", ":",
                         " ", "f", "o", "r", "m", "-", "d", "a", "t", "a",
                         ";", " ", "n", "a", "m", "e", "=", "\"">>)
L_filenameParam == A(<<"\"", ";", " ", "f", "i", "l", "e", "n", "a", "m",
                       "e", "=", "\"">>)
L_quote == A(<<"\"">>)
L_contentType == A(<<"C", "o", "n", "t", "e", "n", "t", "-", "T", "y", "p",
                     "e", ":", " ">>)
L_octetStream == A(<<"a", "p", "p", "l", "i", "c", "a", "t", "i", "o", "n",
                     "/", "o", "c", "t", "e", "t", "-", "s", "t", "r", "e",
                     "a", "m">>)
L_multipart == A(<<"m", "u", "l", "t", "i", "p", "a", "r", "t", "/", "f",
                   "o", "r", "m", "-", "d", "a", "t", "a", ";", " ", "b",
                   "o", "u", "n", "d", "a", "r", "y", "=">>)
L_utf8Ticks == A(<<"U", "T", "F", "-", "8", "'", "'">>)
L_pct27 == A(<<"%", "2", "7">>)
L_hexDigits == A(<<"0", "1", "2", "3", "4", "5", "6", "7", "8", "9", "A",
                   "B", "C", "D", "E", "F">>)
L_uriUnreserved == A(<<"A", "B", "C", "D", "E", "F", "G", "H", "I", "J", "K",
                       "L", "M", "N", "O", "P", "Q", "R", "S", "T", "U", "V",
                       "W", "X", "Y", "Z", "a", "b", "c", "d", "e", "f", "g",
                       "h", "i", "j", "k", "l", "m", "n", "o", "p", "q", "r",
                       "s", "t", "u", "v", "w", "x", "y", "z", "0", "1", "2",
                       "3", "4", "5", "6", "7", "8", "9", "-", "_", ".", "!",
                       "~", "*", "'", "(", ")">>)

\* `----n8n-rows-${Date.now()}-${Math.random().toString(36).substring(2, 15)}`
\* now: the decimal digits of Date.now(); rnd: the base-36 digits kept
generateBoundary(now, rnd) == L_boundaryPrefix \o now \o L_dash \o rnd

\* mutant: the quotes are escaped before the backslashes
escapeQuotedString_quotesFirst(value) ==
    ReplaceAll(ReplaceAll(value, DQUOTE, <<BACKSLASH, DQUOTE>>),
               BACKSLASH, <<BACKSLASH, BACKSLASH>>)

escapeQuotedString(value) ==
    ReplaceAll(ReplaceAll(value, BACKSLASH, <<BACKSLASH, BACKSLASH>>),
               DQUOTE, <<BACKSLASH, DQUOTE>>)

\* the character class [\x20-\x21\x23-\x5B\x5D-\x7E]
InSafeClass(c) == (32 <= c /\ c <= 33) \/ (35 <= c /\ c <= 91) \/ (93 <= c /\ c <= 126)

\* mutant: every non-empty ASCII filename counts as safe
IsSafeAscii_anyAscii(filename) ==
    Len(filename) >= 1 /\ \A n \in 1..Len(filename) : filename[n] <= 127

\* /^[\x20-\x21\x23-\x5B\x5D-\x7E]+$/.test(filename)
IsSafeAscii(filename) ==
    Len(filename) >= 1 /\ \A n \in 1..Len(filename) : InSafeClass(filename[n])

PercentByte(b) == <<Code("%"), L_hexDigits[(b \div 16) + 1], L_hexDigits[(b % 16) + 1]>>

\* encodeURIComponent on one code point
EncodeUriChar(c) ==
    IF \E n \in 1..Len(L_uriUnreserved) : L_uriUnreserved[n] = c
    THEN <<c>>
    ELSE LET bytes == Utf8(c) IN Flatten([n \in 1..Len(bytes) |-> PercentByte(bytes[n])])

encodeURIComponent(s) == Flatten([n \in 1..Len(s) |-> EncodeUriChar(s[n])])

\* mutant: the apostrophes of the percent-encoded name are left as they are
encodeFilename_keepsApostrophe(filename) ==
    IF IsSafeAscii(filename)
    THEN escapeQuotedString(filename)
    ELSE L_utf8Ticks \o encodeURIComponent(filename)

encodeFilename(filename) ==
    IF IsSafeAscii(filename)
    THEN escapeQuotedString(filename)
    ELSE L_utf8Ticks \o ReplaceAll(encodeURIComponent(filename), APOSTROPHE, L_pct27)

escapeFieldName(name) == escapeQuotedString(name)

\* mutant: a missing content type is written as it is, without the default
ContentTypeOr_asIs(contentType) == contentType

\* file.contentType || 'application/octet-stream'
ContentTypeOr(contentType) == IF contentType = <<>> THEN L_octetStream ELSE contentType

\* mutant: the empty line between the header and the value is left out
FieldPartBytes_noEmptyLine(field, boundary) ==
    BufferFrom(L_dashes \o boundary \o CRLF)
    \o BufferFrom(L_dispositionName \o escapeFieldName(field.name) \o L_quote \o CRLF)
    \o BufferFrom(field.value)
    \o BufferFrom(CRLF)

\* the four buffers pushed for one field
FieldPartBytes(field, boundary) ==
    BufferFrom(L_dashes \o boundary \o CRLF)
    \o BufferFrom(L_dispositionName \o escapeFieldName(field.name) \o L_quote \o CRLF \o CRLF)
    \o BufferFrom(field.value)
    \o BufferFrom(CRLF)

\* the five buffers pushed for one file
FilePartBytes(file, boundary) ==
    BufferFrom(L_dashes \o boundary \o CRLF)
    \o BufferFrom(L_dispositionName \o escapeFieldName(file.name) \o L_filenameParam
                  \o encodeFilename(file.filename) \o L_quote \o CRLF)
    \o BufferFrom(L_contentType \o ContentTypeOr(file.contentType) \o CRLF \o CRLF)
    \o file.data
    \o BufferFrom(CRLF)

ClosingBytes_unterminated(boundary) == BufferFrom(L_dashes \o boundary \o CRLF)

ClosingBytes(boundary) == BufferFrom(L_dashes \o boundary \o L_dashes \o CRLF)

\* mutant: the contentType is written with a boundary generated anew
buildMultipartFormData_secondBoundary(fields, files, boundary) ==
    [body |-> Flatten([n \in 1..Len(fields) |-> FieldPartBytes(fields[n], boundary)])
              \o Flatten([n \in 1..Len(files) |-> FilePartBytes(files[n], boundary)])
              \o ClosingBytes(boundary),
     contentType |-> L_multipart \o generateBoundary(boundary, boundary)]

\* buildMultipartFormData(fields, files), given the boundary generateBoundary returned
buildMultipartFormData(fields, files, boundary) ==
    [body |-> Flatten([n \in 1..Len(fields) |-> FieldPartBytes(fields[n], boundary)])
              \o Flatten([n \in 1..Len(files) |-> FilePartBytes(files[n], boundary)])
              \o ClosingBytes(boundary),
     contentType |-> L_multipart \o boundary]

(***************************************************************************)
(* Inputs of the encoder and its specification.                            *)
(***************************************************************************)
MaxParts == 3

\* values of Date.now() (decimal digits) and of the random suffix
T_now1 == A(<<"1", "7", "3", "0", "0", "0", "0", "0", "0", "0", "0", "0", "0">>)
T_now2 == A(<<"1", "7", "3", "0", "0", "0", "0", "0", "0", "0", "0", "0", "1">>)
R_rnd1 == A(<<"k", "3", "x", "9", "q", "0", "z", "t", "1", "a", "b">>)
Timestamps == {T_now1, T_now2}
Randoms == {R_rnd1, <<>>}

\* a boundary the encoder can generate, and its delimiter line
B_one == generateBoundary(T_now1, R_rnd1)

MultipartField(name, value) == [name |-> name, value |-> value]
MultipartFile(name, filename, contentType, data) ==
    [name |-> name, filename |-> filename, contentType |-> contentType, data |-> data]

S_mode == A(<<"m", "o", "d", "e">>)
S_read == A(<<"r", "e", "a", "d">>)
S_instructions == A(<<"i", "n", "s", "t", "r", "u", "c", "t", "i", "o", "n",
                      "s">>)
S_files == A(<<"f", "i", "l", "e", "s">>)
S_imagePng == A(<<"i", "m", "a", "g", "e", "/", "p", "n", "g">>)
S_a_png == A(<<"a", ".", "p", "n", "g">>)
S_b_pdf == A(<<"b", ".", "p", "d", "f">>)
S_its_png == A(<<"i", "t", "'", "s", ".", "p", "n", "g">>)
S_quoted == A(<<"q", "\"", "x", "\\", "y">>)
S_sum == A(<<"s", "u", "m">>)
\* "caf\u00E9.png": U+00E9 is code point 233
S_cafe == A(<<"c", "a", "f">>) \o <<233>> \o A(<<".", "p", "n", "g">>)
S_twoLines == A(<<"a">>) \o CRLF \o A(<<"b">>)

F_mode    == MultipartField(S_mode, S_read)
F_empty   == MultipartField(S_instructions, <<>>)
F_text    == MultipartField(S_quoted, S_cafe \o CRLF \o S_sum)
\* a value holding a delimiter line of boundary B_one
F_collide == MultipartField(S_instructions, S_sum \o CRLF \o L_dashes \o B_one \o CRLF \o S_sum)

FieldKinds == {F_mode, F_empty, F_text, F_collide}

X_png     == MultipartFile(S_files, S_a_png, S_imagePng, <<137, 80, 78, 71, 13, 10>>)
X_noType  == MultipartFile(S_files, S_b_pdf, <<>>, <<>>)
X_apos    == MultipartFile(S_quoted, S_its_png, S_imagePng, <<0, 255>>)
\* its bytes hold a delimiter line of boundary B_one
X_quote   == MultipartFile(S_files, S_quoted, S_imagePng,
                           <<1>> \o CRLF \o L_dashes \o B_one \o CRLF \o <<1>>)
X_cafe    == MultipartFile(S_files, S_cafe, S_imagePng, <<2>>)
X_noName  == MultipartFile(S_files, <<>>, <<>>, <<3>>)
X_lines   == MultipartFile(S_files, S_twoLines, S_imagePng, <<13, 10, 45, 45>>)

FileKinds == {X_png, X_noType, X_apos, X_quote, X_cafe, X_noName, X_lines}

MaxFilenameLen == 2

\* a, space, double quote, backslash, apostrophe, percent, U+00E9, U+20AC
FilenameAlphabet == {97, 32, 34, 92, 39, 37, 233, 8364}

\* one file under each filename of at most MaxFilenameLen such characters
FilenameCases ==
    {<<MultipartFile(S_files, filename, S_imagePng, <<4>>)>> :
        filename \in SeqsUpTo(FilenameAlphabet, MaxFilenameLen) \ {<<>>}}

\* LF, CR, NUL, DEL, double quote, a
ControlAlphabet == {10, 13, 0, 127, 34, 97}

\* one file under each filename of at most MaxFilenameLen such characters
ControlCases ==
    {<<MultipartFile(S_files, filename, S_imagePng, <<5>>)>> :
        filename \in SeqsUpTo(ControlAlphabet, MaxFilenameLen) \ {<<>>}}

\* the aggregation is not running
AggIdle ==
    /\ items = <<>>
    /\ operation = "none"
    /\ tablePosts = <<>>
    /\ collectAllItems = FALSE
    /\ continueOnFail = FALSE
    /\ pc = "idle"
    /\ call = "none"
    /\ execI = 0
    /\ returnData = <<>>
    /\ itemIndex = 0
    /\ k = 0
    /\ allBinaryFiles = <<>>
    /\ totalSize = 0
    /\ error = NoError
    /\ params = UnreadParams
    /\ reads = <<>>
    /\ built = 0
    /\ sent = 0
    /\ posts = <<>>

InitEncode ==
    /\ \/ /\ encFields \in SeqsUpTo(FieldKinds, MaxParts)
          /\ encFiles \in SeqsUpTo(FileKinds, MaxParts)
          /\ Len(encFields) + Len(encFiles) <= MaxParts
       \/ /\ encFields = <<>>
          /\ encFiles \in FilenameCases \cup ControlCases
    /\ encPc = "ready"
    /\ encBoundary = <<>>
    /\ encResult = [body |-> <<>>, contentType |-> <<>>]
    /\ encEarlier = <<>>
    /\ AggIdle

\* one call of buildMultipartFormData(encFields, encFiles)
Encode ==
    /\ encPc = "ready"
    /\ \E now \in Timestamps, rnd \in Randoms :
         /\ encBoundary' = generateBoundary(now, rnd)
         /\ encResult' = buildMultipartFormData(encFields, encFiles, generateBoundary(now, rnd))
    /\ encPc' = "done"
    /\ UNCHANGED <<encFields, encFiles, encEarlier, aggVars>>

NextEncode == Encode

SpecEncode == InitEncode /\ [][NextEncode]_vars

(***************************************************************************)
(* Repeated calls of buildMultipartFormData on the same arguments.  All    *)
(* the function's variables (boundary, parts, body, contentType) are       *)
(* local to the call; generateBoundary reads the clock and Math.random.    *)
(***************************************************************************)
MaxCalls == 2
MaxRepeatParts == 2

\* the boundary of a later call: the one of the call before, or another one
LaterBoundaries == {encBoundary, generateBoundary(T_now2, R_rnd1)}

InitRepeat ==
    /\ encFields \in SeqsUpTo(FieldKinds, MaxRepeatParts)
    /\ encFiles \in SeqsUpTo(FileKinds, MaxRepeatParts)
    /\ Len(encFields) + Len(encFiles) <= MaxRepeatParts
    /\ encPc = "ready"
    /\ encBoundary = <<>>
    /\ encResult = [body |-> <<>>, contentType |-> <<>>]
    /\ encEarlier = <<>>
    /\ AggIdle

\* mutant: the parts array outlives the call, so a later body begins with
\* the parts of the call before
EncodeAgain_sharedParts ==
    /\ encPc = "done"
    /\ Len(encEarlier) + 1 < MaxCalls
    /\ encEarlier' = Append(encEarlier, [boundary |-> encBoundary, result |-> encResult])
    /\ \E boundary \in LaterBoundaries :
         /\ encBoundary' = boundary
         /\ encResult' =
              [body |-> encResult.body
                        \o buildMultipartFormData(encFields, encFiles, boundary).body,
               contentType |->
                   buildMultipartFormData(encFields, encFiles, boundary).contentType]
    /\ UNCHANGED <<encFields, encFiles, encPc, aggVars>>

\* one more call of buildMultipartFormData(encFields, encFiles)
EncodeAgain ==
    /\ encPc = "done"
    /\ Len(encEarlier) + 1 < MaxCalls
    /\ encEarlier' = Append(encEarlier, [boundary |-> encBoundary, result |-> encResult])
    /\ \E boundary \in LaterBoundaries :
         /\ encBoundary' = boundary
         /\ encResult' = buildMultipartFormData(encFields, encFiles, boundary)
    /\ UNCHANGED <<encFields, encFiles, encPc, aggVars>>

NextRepeat ==
    \/ Encode
    \/ EncodeAgain

SpecRepeat == InitRepeat /\ [][NextRepeat]_vars

(***************************************************************************)
(* Reference notions the properties are stated with.  They are written     *)
(* from the statements, independently of the operators above.              *)
(***************************************************************************)
ClaimedCap == 80 * 1024 * 1024
ClaimedMaxFiles == 50
ClaimedTypes ==
    {<<"p", "n", "g">>, <<"j", "p", "g">>, <<"j", "p", "e", "g">>, <<"w", "e", "b", "p">>,
     <<"p", "d", "f">>, <<"h", "e", "i", "c">>, <<"c", "s", "v">>, <<"t", "s", "v">>,
     <<"x", "l", "s">>, <<"x", "l", "s", "x">>}

RefLowerChar(c) ==
    CASE c = "B" -> "b" [] c = "E" -> "e" [] c = "F" -> "f" [] c = "G" -> "g"
      [] c = "I" -> "i" [] c = "J" -> "j" [] c = "L" -> "l" [] c = "N" -> "n"
      [] c = "P" -> "p" [] c = "S" -> "s" [] c = "X" -> "x" [] OTHER -> c

\* position of the last '.', 0 when there is none
RefLastDot(s) ==
    IF \E n \in 1..Len(s) : s[n] = "."
    THEN CHOOSE n \in 1..Len(s) : s[n] = "." /\ \A m \in (n + 1)..Len(s) : s[m] # "."
    ELSE 0

RefExtension(s) ==
    IF RefLastDot(s) = 0 THEN <<>>
    ELSE [n \in 1..(Len(s) - RefLastDot(s)) |-> RefLowerChar(s[RefLastDot(s) + n])]

RefAccepted(s) == RefExtension(s) \in ClaimedTypes

\* the entry a getBinaryDataBuffer call read
EntryRead(r) == Lookup(items[r[1]], r[2])
\* the designated entry of item j and the name its type check uses
Designated(j) == Lookup(items[j], K_data)
DesignatedName(j) ==
    IF Designated(j).fileName = <<>> THEN <<"f", "i", "l", "e">> ELSE Designated(j).fileName
ExtraName(e) == IF e.fileName = <<>> THEN e.key ELSE e.fileName
\* the name under which entry e is type-checked
RefName(e) ==
    IF e.fileName # <<>> THEN e.fileName
    ELSE IF e.key = <<"d", "a", "t", "a">> THEN <<"f", "i", "l", "e">> ELSE e.key
HasDesignated(j) == items[j].hasBinary /\ Designated(j).present

CallOver == pc \in {"call_returned", "call_failed", "exec_loop", "exec_returned", "exec_thrown"}
\* the running import call is handing its files to the transport
InSend == call \in {"single", "all"} /\ pc \in {"svir_validate", "svir_post", "call_returned"}

(***************************************************************************)
(* Properties of the aggregation (specification Spec).                     *)
(***************************************************************************)

\* C2: every request handed to the transport carries at least one file, and
\* a collect-all call over items none of which has the designated property
\* fails with NoFilesProvided naming that property, without sending.
C2_RequestsCarryFiles ==
    /\ \A n \in 1..Len(posts) : Len(posts[n].files) >= 1
    /\ InSend => Len(allBinaryFiles) >= 1
    /\ (call = "all" /\ \A j \in 1..Len(items) : ~HasDesignated(j))
         => /\ ~InSend
            /\ posts = <<>>
            /\ CallOver => /\ error.kind = "NoFilesProvided"
                           /\ error.subject = <<"d", "a", "t", "a">>
                           /\ sent = 0

C2_Witness ==
    /\ call = "all"
    /\ pc = "call_failed"
    /\ Len(items) >= 2
    /\ \E j \in 1..Len(items) : items[j].hasBinary /\ Len(items[j].binary) >= 2
    /\ error.kind = "NoFilesProvided"

\* C3: an aggregation error is raised before the form is built and before the
\* POST: in a call that has one of these errors nothing was built or sent,
\* and a call that has built or sent never raises one afterwards.
C3_ErrorsPrecedeTransport ==
    /\ error.kind \in AggregationErrorKinds => built = 0 /\ sent = 0
    /\ (built > 0 \/ sent > 0) => error.kind \in {"none", "TransportError"}

C3_Witness ==
    /\ error.kind = "MissingRequiredParameter"
    /\ pc = "call_failed"
    /\ Len(allBinaryFiles) >= 2
    /\ Len(posts) = 0

C7_FileCountLimit ==
    /\ error.kind = "TooManyFiles"
         => /\ call = "all"
            /\ Len(allBinaryFiles) > ClaimedMaxFiles
            /\ itemIndex = Len(items) + 1
            /\ built = 0 /\ sent = 0
    /\ (call = "all" /\ itemIndex = Len(items) + 1 /\ pc \notin {"aii_item", "aii_final"})
         => (Len(allBinaryFiles) > ClaimedMaxFiles <=> error.kind = "TooManyFiles")
    /\ (call = "all" /\ InSend) => Len(allBinaryFiles) <= ClaimedMaxFiles
    /\ (call = "single" /\ pc = "call_failed" /\ Len(allBinaryFiles) > ClaimedMaxFiles
          /\ k > Len(items[itemIndex].binary))
         => error.kind \in {"TotalSizeExceeded", "MissingRequiredParameter", "TransportError"}

C7_Witness ==
    /\ call = "all"
    /\ pc = "call_failed"
    /\ error.kind = "TooManyFiles"
    /\ Len(allBinaryFiles) = ClaimedMaxFiles + 1
    /\ totalSize <= ClaimedCap

\* C8: the collect-all call visits the items in index order, skips an item
\* without the designated property, and collects for each other item its
\* designated file first, then its further files in enumeration order.
RefIsExtra(e) == e.key # <<"d", "a", "t", "a">> /\ e.present /\ e.readable
RefId(j, e) == [item |-> j, key |-> e.key]
RefFilesOfItem(j) ==
    IF ~HasDesignated(j) THEN <<>>
    ELSE LET extras == SelectSeq(items[j].binary, RefIsExtra)
         IN  <<RefId(j, Designated(j))>> \o [n \in 1..Len(extras) |-> RefId(j, extras[n])]

RECURSIVE RefFlatten(_)
RefFlatten(n) == IF n = 0 THEN <<>> ELSE RefFlatten(n - 1) \o RefFilesOfItem(n)

FileIds(files) == [n \in 1..Len(files) |-> [item |-> files[n].data.item, key |-> files[n].data.key]]

C8_CollectOrder ==
    call = "all" =>
      /\ pc = "aii_item" => FileIds(allBinaryFiles) = RefFlatten(itemIndex - 1)
      /\ (pc = "aii_final" \/ InSend) => FileIds(allBinaryFiles) = RefFlatten(Len(items))
      /\ \A n \in 1..Len(posts) : FileIds(posts[n].files) = RefFlatten(Len(items))
      /\ error.kind # "MissingBinaryData"
      /\ ((pc = "aii_final" \/ InSend)
            /\ \A j \in 1..Len(items) : \A n \in 1..Len(items[j].binary) :
                  items[j].binary[n].key = <<"d", "a", "t", "a">>)
           => Len(allBinaryFiles) = Cardinality({j \in 1..Len(items) : HasDesignated(j)})

C8_Witness ==
    /\ call = "all"
    /\ pc = "call_returned"
    /\ Len(items) = 3
    /\ HasDesignated(1) /\ ~HasDesignated(2) /\ HasDesignated(3)
    /\ \A j \in 1..3 : \A n \in 1..Len(items[j].binary) :
          items[j].binary[n].key = <<"d", "a", "t", "a">>
    /\ FileIds(allBinaryFiles) = <<RefId(1, Designated(1)), RefId(3, Designated(3))>>

\* C9: the single-item call on an item without binary data, or without the
\* designated property, fails with MissingBinaryData before any byte read
\* and before any transport call.
C9_MissingBinaryData ==
    (call = "single" /\ pc # "ivd_check" /\ ~HasDesignated(itemIndex))
      => /\ error.kind = "MissingBinaryData"
         /\ error.subject = <<"d", "a", "t", "a">>
         /\ reads = <<>>
         /\ allBinaryFiles = <<>>
         /\ built = 0 /\ sent = 0

C9_Witness ==
    /\ call = "single"
    /\ pc = "call_failed"
    /\ error.kind = "MissingBinaryData"
    /\ items[itemIndex].hasBinary
    /\ \E n \in 1..Len(items[itemIndex].binary) :
          items[itemIndex].binary[n].present /\ items[itemIndex].binary[n].readable

\* C10: in the scan of an item's further properties, a property whose read
\* fails is skipped (no file, no bytes added, the scan goes on with the next
\* property), and a property whose file breaks the type or per-file size
\* policy aborts the call with that policy error, nothing being sent.
C10_ScanStep ==
    (pc \in {"ivd_extra", "aii_extra"} /\ k <= Len(items[itemIndex].binary)
       /\ items[itemIndex].binary[k].key # <<"d", "a", "t", "a">>
       /\ items[itemIndex].binary[k].present)
      => LET e == items[itemIndex].binary[k]
         IN  /\ ~e.readable
                  => /\ allBinaryFiles' = allBinaryFiles
                     /\ totalSize' = totalSize
                     /\ error' = error
                     /\ pc' = pc
                     /\ k' = k + 1
                     /\ itemIndex' = itemIndex
             /\ (e.readable /\ (e.size > ClaimedCap \/ ~RefAccepted(ExtraName(e))))
                  => /\ pc' = "call_failed"
                     /\ error'.kind \in {"FileTooLarge", "UnsupportedFileType"}
                     /\ error'.kind = "FileTooLarge" => e.size > ClaimedCap
                     /\ error'.kind = "UnsupportedFileType" => ~RefAccepted(ExtraName(e))
                     /\ allBinaryFiles' = allBinaryFiles
                     /\ sent' = 0 /\ built' = 0
                     /\ posts' = posts

C10_ExtraProperties == [][C10_ScanStep]_vars

\* a failed read was skipped and a later property of the same item was added
C10_Witness ==
    /\ pc \in {"ivd_extra", "aii_extra"}
    /\ Len(reads) >= 3
    /\ ~EntryRead(reads[2]).readable
    /\ reads[2][1] = reads[Len(reads)][1]
    /\ Len(allBinaryFiles) >= 2
    /\ allBinaryFiles[Len(allBinaryFiles)].data.key = reads[Len(reads)][2]
    /\ allBinaryFiles[Len(allBinaryFiles)].data.key # reads[2][2]
    /\ totalSize = 2

\* the last byte read of the current call was of a designated property
\* that is present and whose bytes cannot be read
RefDesignatedReadFailed ==
    /\ reads # <<>>
    /\ reads[Len(reads)][2] = <<"d", "a", "t", "a">>
    /\ EntryRead(reads[Len(reads)]).present
    /\ ~EntryRead(reads[Len(reads)]).readable

\* C11: in both modes, when the designated property of an item is present
\* and its byte read fails, the call fails with that read failure: the item
\* is not skipped, nothing is built and nothing is sent; and a call fails
\* with a read failure only in that case.
C11_ReadFailureNotAbsence ==
    /\ RefDesignatedReadFailed
         => /\ pc \in {"call_failed", "exec_loop", "exec_returned", "exec_thrown"}
            /\ error.kind = "BinaryReadFailure"
            /\ error.subject = <<"d", "a", "t", "a">>
            /\ built = 0
            /\ sent = 0
    /\ error.kind = "BinaryReadFailure" => RefDesignatedReadFailed

\* a collect-all call that had collected a file of an earlier item failed
\* on the unreadable designated property of a later item
C11_Witness ==
    /\ call = "all"
    /\ pc = "call_failed"
    /\ error.kind = "BinaryReadFailure"
    /\ itemIndex >= 2
    /\ Len(allBinaryFiles) >= 1
    /\ sent = 0

\* a table identifier is supplied and the spreadsheet identifier is empty
RefTableAlone == params.read /\ params.tableId # "" /\ params.appId = ""

\* the step that reads the identifiers: table alone fails the call at
\* once, anything else goes on to the building of the form
C12_CheckStep ==
    pc = "svir_validate"
      => IF params'.tableId # "" /\ params'.appId = ""
         THEN /\ pc' = "call_failed"
              /\ error'.kind = "MissingRequiredParameter"
              /\ built' = 0
              /\ sent' = 0
              /\ posts' = posts
         ELSE /\ pc' = "svir_post"
              /\ error' = error

ClaimedTotalCap == 80 * 1024 * 1024

\* the sum of the byte lengths of the given buffers
RECURSIVE RefTotal(_)
RefTotal(buffers) ==
    IF buffers = <<>> THEN 0 ELSE Head(buffers).length + RefTotal(Tail(buffers))

RefBuffered == RefTotal([n \in 1..Len(allBinaryFiles) |-> allBinaryFiles[n].data])

C14_RunningBound == RefBuffered <= ClaimedTotalCap

\* the names of the scalar fields of a request
RefFieldNames(post) == {post.fields[m].name : m \in 1..Len(post.fields)}

\* C15: in every request each scalar parameter is a form field only when
\* it is non-empty and differs from its default: an empty identifier or
\* instructions text, mode = create and merge = false produce no field.
C15_OmitAbsentParameters ==
    \A n \in 1..Len(posts) :
        /\ "folder_id" \in RefFieldNames(posts[n]) <=> params.folderId # ""
        /\ "app_id" \in RefFieldNames(posts[n]) <=> params.appId # ""
        /\ "table_id" \in RefFieldNames(posts[n]) <=> params.tableId # ""
        /\ "instructions" \in RefFieldNames(posts[n]) <=> params.instructions # ""
        /\ "mode" \in RefFieldNames(posts[n]) <=> params.mode \notin {"", "create"}
        /\ "merge" \in RefFieldNames(posts[n]) <=> params.merge

\* the processing modes that only read the files
RefReadModes == {"read", "read_simplified"}

\* post carries the field mode with one of the reading modes
RefReadsOnly(post) ==
    \E m \in 1..Len(post.fields) :
        post.fields[m].name = "mode" /\ post.fields[m].value \in RefReadModes

\* C23: no request carries a file of a type that requires 'create' mode
\* (csv, tsv, xls, xlsx) together with the mode read or read_simplified.
C23_ModeCompatibility ==
    \A n \in 1..Len(posts) :
        RefReadsOnly(posts[n])
          => \A f \in 1..Len(posts[n].files) :
                ~requiresCreateMode(posts[n].files[f].filename)

\* item j holds a valid, readable file under a key other than the designated one
RefHasValidExtra(j) ==
    \E n \in 1..Len(items[j].binary) :
        LET e == items[j].binary[n]
        IN  /\ e.key # <<"d", "a", "t", "a">>
            /\ e.present /\ e.readable
            /\ e.size <= ClaimedCap
            /\ RefExtension(ExtraName(e)) \in ClaimedTypes

\* C24: in the collect-all call an item without the designated property
\* contributes nothing: none of its properties is read, and no file of it
\* is collected or sent, also when it holds valid files under other keys.
C24_SkippedItemContributesNothing ==
    call = "all"
      => \A j \in 1..Len(items) :
            ~HasDesignated(j)
              => /\ \A r \in 1..Len(reads) : reads[r][1] # j
                 /\ \A f \in 1..Len(allBinaryFiles) : allBinaryFiles[f].data.item # j
                 /\ \A n \in 1..Len(posts) : \A f \in 1..Len(posts[n].files) :
                       posts[n].files[f].data.item # j

\* a request was sent for a batch whose second item holds a valid file but
\* not the designated property
C24_Witness ==
    /\ call = "all"
    /\ pc = "call_returned"
    /\ Len(items) = 3
    /\ ~HasDesignated(2)
    /\ items[2].hasBinary
    /\ RefHasValidExtra(2)
    /\ Len(posts) = 1
    /\ \E f \in 1..Len(posts[1].files) : posts[1].files[f].data.item = 3

\* the designated property is read only after its name passed the type
\* check; a call that failed on an item whose designated name does not pass
\* failed with UnsupportedFileType and read nothing of that item
C25_DesignatedTypeFirst ==
    /\ \A r \in 1..Len(reads) :
          reads[r][2] = <<"d", "a", "t", "a">> => RefAccepted(DesignatedName(reads[r][1]))
    /\ (pc = "call_failed" /\ itemIndex \in 1..Len(items) /\ HasDesignated(itemIndex)
          /\ ~RefAccepted(DesignatedName(itemIndex)))
         => /\ error.kind = "UnsupportedFileType"
            /\ \A r \in 1..Len(reads) : reads[r][1] # itemIndex

\* the scan step on a further property reads its bytes whatever its name,
\* and an oversize file fails with FileTooLarge whatever its type
C25_ExtraStep ==
    (pc \in {"ivd_extra", "aii_extra"} /\ k <= Len(items[itemIndex].binary)
       /\ items[itemIndex].binary[k].key # <<"d", "a", "t", "a">>
       /\ items[itemIndex].binary[k].present)
      => LET e == items[itemIndex].binary[k]
         IN  /\ reads' = Append(reads, <<itemIndex, e.key>>)
             /\ (e.readable /\ e.size > ClaimedCap)
                  => /\ pc' = "call_failed"
                     /\ error'.kind = "FileTooLarge"

\* C25: the type of the designated file is checked before its bytes are
\* read, so a designated file of a disallowed type fails with
\* UnsupportedFileType without a read; a further property is read first and
\* its size is checked before its type, so a further file that is oversize
\* and of a disallowed type fails with FileTooLarge.
C25_CheckOrder == [][C25_ExtraStep]_vars /\ []C25_DesignatedTypeFirst

\* the first item failed on the type of its unread designated file, the
\* second on the size of a further file of a disallowed type
C25_Witness ==
    /\ call = "single"
    /\ pc = "call_failed"
    /\ itemIndex = 2
    /\ Len(returnData) = 1
    /\ returnData[1].error = "UnsupportedFileType"
    /\ ~Designated(1).readable
    /\ error.kind = "FileTooLarge"
    /\ Len(reads) = 2
    /\ EntryRead(reads[2]).size > ClaimedCap
    /\ ~RefAccepted(ExtraName(EntryRead(reads[2])))

\* the error the stated order selects once the loop over the items is done
RefFinalError ==
    IF Len(allBinaryFiles) = 0 THEN "NoFilesProvided"
    ELSE IF Len(allBinaryFiles) > ClaimedMaxFiles THEN "TooManyFiles"
    ELSE IF RefBuffered > ClaimedTotalCap THEN "TotalSizeExceeded"
    ELSE IF RefTableAlone THEN "MissingRequiredParameter"
    ELSE "TransportError"

\* C26: a collect-all call that fails after its loop over the items reports
\* one error, the first that applies in the order NoFilesProvided,
\* TooManyFiles, TotalSizeExceeded, MissingRequiredParameter; the first
\* three are raised before the identifiers are read, whatever they are.
C26_FinalPrecedence ==
    (call = "all" /\ pc = "call_failed" /\ itemIndex > Len(items))
      => /\ error.kind = RefFinalError
         /\ error.kind \in {"NoFilesProvided", "TooManyFiles", "TotalSizeExceeded"}
              => ~params.read /\ posts = <<>>
         /\ error.kind = "MissingRequiredParameter" => posts = <<>>

\* 51 files of more than 80 MiB in total fail with TooManyFiles
C26_Witness ==
    /\ call = "all"
    /\ pc = "call_failed"
    /\ itemIndex > Len(items)
    /\ Len(allBinaryFiles) = ClaimedMaxFiles + 1
    /\ RefBuffered > ClaimedTotalCap
    /\ error.kind = "TooManyFiles"

\* a designated file without fileName is never read, and the call that
\* meets it fails on the type of the name 'file'
C27_DesignatedUnnamed ==
    /\ \A r \in 1..Len(reads) :
          reads[r][2] = <<"d", "a", "t", "a">> => Designated(reads[r][1]).fileName # <<>>
    /\ (pc = "call_failed" /\ itemIndex \in 1..Len(items) /\ HasDesignated(itemIndex)
          /\ Designated(itemIndex).fileName = <<>>)
         => /\ error.kind = "UnsupportedFileType"
            /\ error.subject = IF call = "all" THEN <<"f", "i", "l", "e">> ELSE <<>>
            /\ sent = 0

\* the scan step on a further property without fileName, readable and within
\* the size cap: the file is collected under its key when the key has an
\* allowed extension, and the call fails on the type of the key otherwise
C27_ExtraStep ==
    (pc \in {"ivd_extra", "aii_extra"} /\ k <= Len(items[itemIndex].binary)
       /\ items[itemIndex].binary[k].key # <<"d", "a", "t", "a">>
       /\ items[itemIndex].binary[k].present
       /\ items[itemIndex].binary[k].fileName = <<>>
       /\ items[itemIndex].binary[k].readable
       /\ items[itemIndex].binary[k].size <= ClaimedCap)
      => LET e == items[itemIndex].binary[k]
         IN  IF RefAccepted(e.key)
             THEN /\ Len(allBinaryFiles') = Len(allBinaryFiles) + 1
                  /\ allBinaryFiles'[Len(allBinaryFiles')].filename = e.key
                  /\ allBinaryFiles'[Len(allBinaryFiles')].data.key = e.key
                  /\ pc' = pc
                  /\ error' = error
             ELSE /\ pc' = "call_failed"
                  /\ error'.kind = "UnsupportedFileType"
                  /\ error'.subject = e.key
                  /\ allBinaryFiles' = allBinaryFiles

RefPerItem == operation \in {"append", "overwrite"} \/ ~collectAllItems

RefIsPrefix(a, b) == Len(a) <= Len(b) /\ SubSeq(b, 1, Len(a)) = a

\* the items (counted from 1) for which a request went out, in the order
\* of the requests
RefRequestItems ==
    IF operation = "importVision"
    THEN [n \in 1..Len(posts) |-> posts[n].files[1].data.item]
    ELSE [n \in 1..Len(tablePosts) |-> tablePosts[n].item]

\* entry n of the output is paired with input item n (counted from 0)
RefInInputOrder ==
    \A n \in 1..Len(returnData) : returnData[n].pairedItem = n - 1

\* the steps of the per-item loop: a call starts for the item the loop is
\* at, after one entry for each item before it; a call that ended adds the
\* entry of its item and moves to the next item, or, failing without
\* continueOnFail, ends execute; no request is taken back
C28_LoopStep ==
    RefPerItem
      => /\ (pc = "exec_loop" /\ pc' \in {"ivd_check", "table_parse"})
              => /\ itemIndex' = execI
                 /\ execI' = execI
                 /\ Len(returnData) = execI - 1
                 /\ \A n \in 1..Len(RefRequestItems) : RefRequestItems[n] < execI
         /\ (pc = "call_returned" \/ (pc = "call_failed" /\ continueOnFail))
              => /\ pc' = "exec_loop"
                 /\ execI' = execI + 1
                 /\ returnData' = Append(returnData, returnData'[execI])
                 /\ returnData'[execI].pairedItem = itemIndex - 1
                 /\ returnData'[execI].ok = (pc = "call_returned")
                 /\ returnData'[execI].error = error.kind
         /\ (pc = "call_failed" /\ ~continueOnFail)
              => /\ pc' = "exec_thrown"
                 /\ returnData' = returnData
         /\ pc = "exec_thrown" => pc' = "exec_thrown"
         /\ RefIsPrefix(posts, posts')
         /\ RefIsPrefix(tablePosts, tablePosts')

\* what holds of the per-item loop when execute has ended
C28_LoopEnd ==
    RefPerItem
      => /\ RefInInputOrder
         /\ \A n \in 1..Len(RefRequestItems) :
               /\ RefRequestItems[n] <= Len(returnData) + 1
               /\ \A m \in 1..(n - 1) : RefRequestItems[m] < RefRequestItems[n]
         /\ pc = "exec_returned"
              => /\ Len(returnData) = Len(items)
                 /\ ~continueOnFail => \A n \in 1..Len(returnData) : returnData[n].ok
         /\ pc = "exec_thrown"
              => /\ ~continueOnFail
                 /\ execI <= Len(items)
                 /\ itemIndex = execI
                 /\ Len(returnData) = execI - 1
                 /\ \A n \in 1..Len(returnData) : returnData[n].ok
                 /\ \A n \in 1..(execI - 1) :
                       \E m \in 1..Len(RefRequestItems) : RefRequestItems[m] = n

\* C28: in per-item mode the items are processed in index order, one call
\* per item; with continueOnFail the output holds one entry per input item
\* in input order, paired with its item and holding the result or the
\* error; without it the first failing item ends execute, no later item is
\* processed and the requests sent for the earlier items remain sent.
C28_PerItemLoop == [][C28_LoopStep]_vars /\ []C28_LoopEnd

\* the second of three items failed without continueOnFail: execute ended,
\* the request of the first item stays sent, the third item was not touched
C28_Witness ==
    /\ RefPerItem
    /\ pc = "exec_thrown"
    /\ Len(items) = 3
    /\ execI = 2
    /\ Len(returnData) = 1
    /\ returnData[1].ok
    /\ RefRequestItems = <<1>>

\* C29: importVision with collectAllItems on at least one item makes one
\* aggregation call and at most one request, never enters the per-item
\* loop, and returns one entry paired with item 0, the result or, when the
\* call failed under continueOnFail, the error; on no item it makes no
\* call and no request and returns an empty output without error.
C29_CollectAllExecute ==
    (operation = "importVision" /\ collectAllItems)
      => /\ Len(items) > 0
              => /\ pc # "exec_start" => call = "all"
                 /\ pc \notin {"exec_loop", "ivd_check", "ivd_read", "ivd_extra", "ivd_total"}
                 /\ execI = 0
                 /\ Len(posts) <= 1
                 /\ sent = Len(posts)
                 /\ Len(returnData) <= 1
                 /\ pc = "exec_returned"
                      => /\ Len(returnData) = 1
                         /\ returnData[1].pairedItem = 0
                         /\ IF error.kind = "none"
                            THEN returnData[1].ok /\ Len(posts) = 1
                            ELSE /\ continueOnFail
                                 /\ ~returnData[1].ok
                                 /\ returnData[1].error = error.kind
                 /\ pc = "exec_thrown"
                      => /\ ~continueOnFail
                         /\ error.kind # "none"
                         /\ returnData = <<>>
         /\ Len(items) = 0
              => /\ call = "none"
                 /\ pc \in {"exec_start", "exec_loop", "exec_returned"}
                 /\ posts = <<>>
                 /\ reads = <<>>
                 /\ returnData = <<>>
                 /\ error = NoError

\* one request with the files of both items, and one entry for the two
C29_Witness ==
    /\ operation = "importVision"
    /\ collectAllItems
    /\ pc = "exec_returned"
    /\ Len(items) = 2
    /\ Len(posts) = 1
    /\ \E f, g \in 1..Len(posts[1].files) :
          posts[1].files[f].data.item = 1 /\ posts[1].files[g].data.item = 2
    /\ Len(returnData) = 1
    /\ returnData[1].ok
    /\ returnData[1].pairedItem = 0

(***************************************************************************)
(* Properties of the encoder (specification SpecEncode).  RefParse is a    *)
(* multipart/form-data parser after RFC 2046 section 5.1 and RFC 2388:     *)
(* parts are delimited by CRLF "--" boundary, a part is its header lines,  *)
(* an empty line and its content, and the parameters of                    *)
(* Content-Disposition are quoted-strings in which a backslash quotes the  *)
(* next character.                                                         *)
(***************************************************************************)
RefMatchAt(s, pat, p) ==
    /\ p >= 1
    /\ p + Len(pat) - 1 <= Len(s)
    /\ \A n \in 1..Len(pat) : s[p + n - 1] = pat[n]

\* the first position >= p where pat occurs in s, 0 when there is none
RefFind(s, pat, p) ==
    LET hits == {q \in {r \in p..(Len(s) - Len(pat) + 1) : s[r] = pat[1]} :
                    RefMatchAt(s, pat, q)}
    IN  IF hits = {} THEN 0 ELSE CHOOSE q \in hits : \A r \in hits : q <= r

RefSlice(s, from, to) == IF from > to THEN <<>> ELSE SubSeq(s, from, to)

\* the lines of a header block, split at CRLF
RECURSIVE RefLines(_)
RefLines(block) ==
    LET q == RefFind(block, <<13, 10>>, 1)
    IN  IF q = 0 THEN <<block>>
        ELSE <<RefSlice(block, 1, q - 1)>> \o RefLines(RefSlice(block, q + 2, Len(block)))

\* a quoted-string read from position p, just after its opening quote:
\* its value and the position after its closing quote (0 if there is none)
RECURSIVE RefQuoted(_, _, _)
RefQuoted(line, p, acc) ==
    IF p > Len(line) THEN [value |-> acc, next |-> 0]
    ELSE IF line[p] = 92 /\ p + 1 <= Len(line)
    THEN RefQuoted(line, p + 2, Append(acc, line[p + 1]))
    ELSE IF line[p] = 34 THEN [value |-> acc, next |-> p + 1]
    ELSE RefQuoted(line, p + 1, Append(acc, line[p]))

RefDispositionName == A(<<"C", "o", "n", "t", "e", "n", "t", "-", "D", "i",
                          "s", "p", "o", "s", "i", "t", "i", "o", "n", ":",
                          " ", "f", "o", "r", "m", "-", "d", "a", "t", "a",
                          ";", " ", "n", "a", "m", "e", "=", "\"">>)
RefFilenameParam == A(<<";", " ", "f", "i", "l", "e", "n", "a", "m", "e",
                        "=", "\"">>)
RefContentType == A(<<"C", "o", "n", "t", "e", "n", "t", "-", "T", "y", "p",
                      "e", ":", " ">>)
RefMultipart == A(<<"m", "u", "l", "t", "i", "p", "a", "r", "t", "/", "f",
                    "o", "r", "m", "-", "d", "a", "t", "a", ";", " ", "b",
                    "o", "u", "n", "d", "a", "r", "y", "=">>)
RefOctetStream == A(<<"a", "p", "p", "l", "i", "c", "a", "t", "i", "o", "n",
                      "/", "o", "c", "t", "e", "t", "-", "s", "t", "r", "e",
                      "a", "m">>)

RefMalformed ==
    [ok |-> FALSE, name |-> <<>>, isFile |-> FALSE, filename |-> <<>>,
     contentType |-> <<>>, data |-> <<>>]

\* the part with the given header lines and content
RefPart(lines, data) ==
    LET isDisp(n) == RefMatchAt(lines[n], RefDispositionName, 1)
        isType(n) == RefMatchAt(lines[n], RefContentType, 1)
    IN  IF ~\E n \in 1..Len(lines) : isDisp(n) THEN RefMalformed
        ELSE LET disp == lines[CHOOSE n \in 1..Len(lines) : isDisp(n)]
                 name == RefQuoted(disp, Len(RefDispositionName) + 1, <<>>)
                 ctype == IF \E n \in 1..Len(lines) : isType(n)
                          THEN LET l == lines[CHOOSE n \in 1..Len(lines) : isType(n)]
                               IN  RefSlice(l, Len(RefContentType) + 1, Len(l))
                          ELSE <<>>
             IN  IF name.next = 0 THEN RefMalformed
                 ELSE IF name.next = Len(disp) + 1
                 THEN [ok |-> TRUE, name |-> name.value, isFile |-> FALSE,
                       filename |-> <<>>, contentType |-> ctype, data |-> data]
                 ELSE IF ~RefMatchAt(disp, RefFilenameParam, name.next) THEN RefMalformed
                 ELSE LET file == RefQuoted(disp, name.next + Len(RefFilenameParam), <<>>)
                      IN  IF file.next # Len(disp) + 1 THEN RefMalformed
                          ELSE [ok |-> TRUE, name |-> name.value, isFile |-> TRUE,
                                filename |-> file.value, contentType |-> ctype,
                                data |-> data]

\* the parts that follow position p, which is just after a delimiter
RECURSIVE RefParseFrom(_, _, _)
RefParseFrom(body, delim, p) ==
    IF RefMatchAt(body, <<45, 45>>, p) THEN <<>>
    ELSE IF ~RefMatchAt(body, <<13, 10>>, p) THEN <<RefMalformed>>
    ELSE LET headEnd == RefFind(body, <<13, 10, 13, 10>>, p)
             next == IF headEnd = 0 THEN 0
                     ELSE RefFind(body, <<13, 10>> \o delim, headEnd + 4)
         IN  IF headEnd = 0 \/ next = 0 THEN <<RefMalformed>>
             ELSE <<RefPart(RefLines(RefSlice(body, p + 2, headEnd - 1)),
                            RefSlice(body, headEnd + 4, next - 1))>>
                  \o RefParseFrom(body, delim, next + 2 + Len(delim))

RefParse(body, boundary) ==
    LET delim == <<45, 45>> \o boundary
    IN  IF RefMatchAt(body, delim, 1) THEN RefParseFrom(body, delim, 1 + Len(delim))
        ELSE <<RefMalformed>>

\* the boundary parameter of a Content-Type value
RefBoundaryOf(contentType) ==
    IF RefMatchAt(contentType, RefMultipart, 1)
    THEN RefSlice(contentType, Len(RefMultipart) + 1, Len(contentType))
    ELSE <<>>

\* the UTF-8 bytes of a string of code points below U+10000
RECURSIVE RefUtf8(_)
RefUtf8(str) ==
    IF str = <<>> THEN <<>>
    ELSE (IF Head(str) < 128 THEN <<Head(str)>>
          ELSE IF Head(str) < 2048
          THEN <<192 + (Head(str) \div 64), 128 + (Head(str) % 64)>>
          ELSE <<224 + (Head(str) \div 4096), 128 + ((Head(str) \div 64) % 64),
                 128 + (Head(str) % 64)>>) \o RefUtf8(Tail(str))

\* what a parser is to recover from the encoding of the given input
RefExpectedParts(fields, files) ==
    [n \in 1..Len(fields) |->
        [ok |-> TRUE, name |-> RefUtf8(fields[n].name), isFile |-> FALSE,
         filename |-> <<>>, contentType |-> <<>>, data |-> RefUtf8(fields[n].value)]]
    \o [n \in 1..Len(files) |->
        [ok |-> TRUE, name |-> RefUtf8(files[n].name), isFile |-> TRUE,
         filename |-> RefUtf8(files[n].filename),
         contentType |-> IF files[n].contentType = <<>> THEN RefOctetStream
                         ELSE RefUtf8(files[n].contentType),
         data |-> files[n].data]]

\* C1: parsing the returned body with the boundary of the returned
\* contentType recovers the fields (name, value) and the files (name,
\* filename, content type, bytes) that were encoded, in their order.
C1_RoundTrip ==
    encPc = "done"
      => RefParse(encResult.body, RefBoundaryOf(encResult.contentType))
           = RefExpectedParts(encFields, encFiles)

\* the number of lines of body that are exactly the given line
RefCountLines(body, line) ==
    Cardinality({p \in {q \in 1..Len(body) : body[q] = line[1]} :
        /\ RefMatchAt(body, line, p)
        /\ p = 1 \/ RefMatchAt(body, <<13, 10>>, p - 2)})

\* the field values and file payloads hold no delimiter of the boundary
RefNoCollision(boundary) ==
    \A delim \in {<<13, 10, 45, 45>> \o boundary} :
        /\ \A n \in 1..Len(encFields) : RefFind(RefUtf8(encFields[n].value), delim, 1) = 0
        /\ \A n \in 1..Len(encFiles) : RefFind(encFiles[n].data, delim, 1) = 0

\* one part per field, then one part per file, then the closing delimiter:
\* |fields| + |files| opening delimiter lines and one closing delimiter
\* line, which ends the body
RefStructured(body, boundary) ==
    \A opening \in {<<45, 45>> \o boundary \o <<13, 10>>},
       closing \in {<<45, 45>> \o boundary \o <<45, 45, 13, 10>>},
       parts \in {RefParse(body, boundary)} :
        /\ RefCountLines(body, opening) = Len(encFields) + Len(encFiles)
        /\ RefCountLines(body, closing) = 1
        /\ RefMatchAt(body, closing, Len(body) - Len(closing) + 1)
        /\ (encFields = <<>> /\ encFiles = <<>>) => body = closing
        /\ Len(parts) = Len(encFields) + Len(encFiles)
        /\ \A n \in 1..Len(parts) :
             /\ parts[n].isFile = (n > Len(encFields))
             /\ parts[n].name = IF n <= Len(encFields) THEN RefUtf8(encFields[n].name)
                                ELSE RefUtf8(encFiles[n - Len(encFields)].name)

RECURSIVE RefConcat(_)
RefConcat(seqs) == IF seqs = <<>> THEN <<>> ELSE Head(seqs) \o RefConcat(Tail(seqs))

\* bytes with a backslash put before every backslash and double quote
RECURSIVE RefEscape(_)
RefEscape(bytes) ==
    IF bytes = <<>> THEN <<>>
    ELSE (IF Head(bytes) \in {34, 92} THEN <<92, Head(bytes)>> ELSE <<Head(bytes)>>)
         \o RefEscape(Tail(bytes))

\* --{boundary}CRLF
\* Content-Disposition: form-data; name="{escaped-name}"CRLF CRLF
\* {value}CRLF
RefFieldPart(field, boundary) ==
    <<45, 45>> \o boundary \o <<13, 10>>
    \o RefDispositionName \o RefEscape(RefUtf8(field.name)) \o <<34, 13, 10, 13, 10>>
    \o RefUtf8(field.value) \o <<13, 10>>

RefFieldParts(boundary) ==
    RefConcat([n \in 1..Len(encFields) |-> RefFieldPart(encFields[n], boundary)])

\* C16: the body begins with one part per field, in input order, each
\* exactly --{boundary}CRLF, then
\* Content-Disposition: form-data; name="{escaped-name}"CRLF CRLF, then the
\* UTF-8 bytes of the value unchanged, then CRLF.
C16_FieldPartFormat ==
    encPc = "done"
      => \A expected \in {RefFieldParts(RefBoundaryOf(encResult.contentType))} :
            RefSlice(encResult.body, 1, Len(expected)) = expected

\* a field whose name holds a quote and a backslash and whose value holds
\* a non-ASCII character and a line break was encoded before another field
C16_Witness ==
    /\ encPc = "done"
    /\ Len(encFields) = 2
    /\ encFields[1].name = S_quoted
    /\ \E n \in 1..Len(encFields[1].value) : encFields[1].value[n] > 127
    /\ RefFind(encResult.body,
               RefEscape(S_quoted) \o <<34, 13, 10, 13, 10>> \o RefUtf8(encFields[1].value),
               1) > 0

\* --{boundary}CRLF
\* Content-Disposition: form-data; name="{escaped-name}"; filename="{encoded}"CRLF
\* Content-Type: {contentType}CRLF CRLF
\* {data}CRLF
RefFilePart(file, encoded, boundary) ==
    <<45, 45>> \o boundary \o <<13, 10>>
    \o RefDispositionName \o RefEscape(RefUtf8(file.name)) \o <<34>>
    \o RefFilenameParam \o encoded \o <<34, 13, 10>>
    \o RefContentType
    \o (IF file.contentType = <<>> THEN RefOctetStream ELSE RefUtf8(file.contentType))
    \o <<13, 10, 13, 10>>
    \o file.data \o <<13, 10>>

RefFileParts(boundary) ==
    RefConcat([n \in 1..Len(encFiles) |->
        RefFilePart(encFiles[n], RefUtf8(encodeFilename(encFiles[n].filename)), boundary)])

\* C17: after the parts of the fields the body has one part per file, in
\* input order, each exactly --{boundary}CRLF, then
\* Content-Disposition: form-data; name="{escaped-name}"; filename="{encoded-filename}"CRLF,
\* then Content-Type: {contentType}CRLF CRLF, then the bytes of the file
\* unchanged, then CRLF; a file without content type gets
\* application/octet-stream.
C17_FilePartFormat ==
    encPc = "done"
      => \A boundary \in {RefBoundaryOf(encResult.contentType)} :
         \A before \in {Len(RefFieldParts(boundary))}, expected \in {RefFileParts(boundary)} :
            RefSlice(encResult.body, before + 1, before + Len(expected)) = expected

\* a file without content type was encoded after a field and a file with one
C17_Witness ==
    /\ encPc = "done"
    /\ Len(encFields) = 1
    /\ Len(encFiles) = 2
    /\ encFiles[1].contentType # <<>>
    /\ encFiles[2].contentType = <<>>
    /\ RefFind(encResult.body, RefContentType \o RefOctetStream \o <<13, 10, 13, 10>>, 1) > 0

\* the parts of the body, fields then files, for the given boundary
RefParts(boundary) ==
    [n \in 1..Len(encFields) |-> RefFieldPart(encFields[n], boundary)]
    \o [n \in 1..Len(encFiles) |->
          RefFilePart(encFiles[n], RefUtf8(encodeFilename(encFiles[n].filename)), boundary)]

\* where the n-th part begins in the body (the closing delimiter for n past the last)
RefPartStart(parts, n) == 1 + Len(RefConcat(SubSeq(parts, 1, n - 1)))

\* C18: the contentType is multipart/form-data; boundary={boundary}, with
\* the one boundary generated for the call, and each delimiter line of the
\* body, the one that opens each part and the closing one, is two hyphens
\* followed by that same boundary.
C18_OneBoundary ==
    encPc = "done"
      => \A boundary \in {RefBoundaryOf(encResult.contentType)} :
         \A parts \in {RefParts(boundary)} :
            /\ boundary # <<>>
            /\ boundary = encBoundary
            /\ encResult.contentType = RefMultipart \o boundary
            /\ \A n \in 1..Len(parts) :
                 RefMatchAt(encResult.body, <<45, 45>> \o boundary \o <<13, 10>>,
                            RefPartStart(parts, n))
            /\ RefMatchAt(encResult.body, <<45, 45>> \o boundary \o <<45, 45, 13, 10>>,
                          RefPartStart(parts, Len(parts) + 1))
            /\ Len(encResult.body) = RefPartStart(parts, Len(parts) + 1) + Len(boundary) + 5

\* three parts were encoded under a boundary whose random suffix is empty
C18_Witness ==
    /\ encPc = "done"
    /\ Len(encFields) + Len(encFiles) = 3
    /\ encBoundary = generateBoundary(T_now2, <<>>)
    /\ encResult.contentType = RefMultipart \o encBoundary

\* the text between the quotes of the filename parameter of the n-th file
\* part, as it stands in the body
RefRawFilename(body, n) ==
    LET hits == {p \in {q \in 1..Len(body) : body[q] = 59} :
                    RefMatchAt(body, RefFilenameParam, p)}
        from == CHOOSE p \in hits : Cardinality({q \in hits : q < p}) = n - 1
        start == from + Len(RefFilenameParam)
    IN  RefSlice(body, start, RefFind(body, <<34, 13, 10>>, start) - 1)

RefPrintableAscii(str) == str # <<>> /\ \A n \in 1..Len(str) : 32 <= str[n] /\ str[n] <= 126

\* C19: a filename of printable ASCII characters only, double quotes and
\* backslashes among them, is emitted as a quoted-string, each backslash
\* doubled and each double quote preceded by a backslash, and not in the
\* UTF-8'' form.
C19_PrintableAsciiQuoted ==
    encPc = "done"
      => \A n \in 1..Len(encFiles) :
            RefPrintableAscii(encFiles[n].filename)
              => RefRawFilename(encResult.body, n) = RefEscape(encFiles[n].filename)

RefUtf8Ticks == <<85, 84, 70, 45, 56, 39, 39>>
RefHex == <<48, 49, 50, 51, 52, 53, 54, 55, 56, 57, 65, 66, 67, 68, 69, 70>>
RefHexValue(c) == (CHOOSE n \in 1..16 : RefHex[n] = c) - 1
RefIsHex(c) == \E n \in 1..16 : RefHex[n] = c

\* letters, digits and - _ . ! ~ * ( ) stand for themselves
RefUnreserved(c) ==
    \/ 48 <= c /\ c <= 57
    \/ 65 <= c /\ c <= 90
    \/ 97 <= c /\ c <= 122
    \/ c \in {45, 95, 46, 33, 126, 42, 40, 41}

\* the percent-encoding of a string, apostrophes encoded too
RECURSIVE RefPercentEncode(_)
RefPercentEncode(str) ==
    IF str = <<>> THEN <<>>
    ELSE (IF RefUnreserved(Head(str)) THEN <<Head(str)>>
          ELSE LET bytes == RefUtf8(<<Head(str)>>)
               IN  RefConcat([n \in 1..Len(bytes) |->
                       <<37, RefHex[(bytes[n] \div 16) + 1], RefHex[(bytes[n] % 16) + 1]>>]))
         \o RefPercentEncode(Tail(str))

\* the bytes a percent-encoded text stands for
RECURSIVE RefPercentDecode(_)
RefPercentDecode(text) ==
    IF text = <<>> THEN <<>>
    ELSE IF Head(text) = 37 /\ Len(text) >= 3 /\ RefIsHex(text[2]) /\ RefIsHex(text[3])
    THEN <<16 * RefHexValue(text[2]) + RefHexValue(text[3])>>
         \o RefPercentDecode(SubSeq(text, 4, Len(text)))
    ELSE <<Head(text)>> \o RefPercentDecode(Tail(text))

RefNonAscii(str) == \E n \in 1..Len(str) : str[n] > 127

\* C20: a filename with a non-ASCII character is emitted as UTF-8''
\* followed by its percent-encoding, apostrophes encoded as %27, and the
\* text after UTF-8'' percent-decodes to the UTF-8 bytes of the filename.
C20_NonAsciiPercentEncoded ==
    encPc = "done"
      => \A n \in 1..Len(encFiles) :
            RefNonAscii(encFiles[n].filename)
              => \A raw \in {RefRawFilename(encResult.body, n)} :
                 \A rest \in {RefSlice(raw, Len(RefUtf8Ticks) + 1, Len(raw))} :
                    /\ RefMatchAt(raw, RefUtf8Ticks, 1)
                    /\ rest = RefPercentEncode(encFiles[n].filename)
                    /\ \A m \in 1..Len(rest) : rest[m] # 39
                    /\ RefPercentDecode(rest) = RefUtf8(encFiles[n].filename)

\* a filename with an apostrophe and a non-ASCII character was encoded
C20_Witness ==
    /\ encPc = "done"
    /\ encFiles # <<>>
    /\ encFiles[1].filename = <<39, 233>>
    /\ RefRawFilename(encResult.body, 1) = RefUtf8Ticks \o <<37, 50, 55, 37, 67, 51, 37, 65, 57>>

\* the name of the n-th part, fields then files
RefNameOfPart(n) ==
    IF n <= Len(encFields) THEN encFields[n].name ELSE encFiles[n - Len(encFields)].name

\* C21: in every part the text between the quotes of name="..." is the
\* name with each backslash doubled and each double quote preceded by one
\* backslash, and reading it back as a quoted-string gives the name.
C21_NameEscaping ==
    encPc = "done"
      => \A boundary \in {RefBoundaryOf(encResult.contentType)} :
         \A parts \in {RefParts(boundary)} :
         \A n \in 1..Len(parts) :
         \A name \in {RefUtf8(RefNameOfPart(n))},
            at \in {RefPartStart(parts, n) + Len(boundary) + 4 + Len(RefDispositionName)} :
            /\ RefMatchAt(encResult.body, RefDispositionName, at - Len(RefDispositionName))
            /\ RefMatchAt(encResult.body, RefEscape(name) \o <<34>>, at)
            /\ RefQuoted(encResult.body, at, <<>>).value = name
            /\ RefQuoted(encResult.body, at, <<>>).next = at + Len(RefEscape(name)) + 1

\* a field and a file whose names hold a double quote and a backslash
C21_Witness ==
    /\ encPc = "done"
    /\ Len(encFields) = 1
    /\ Len(encFiles) = 1
    /\ encFields[1].name = S_quoted
    /\ encFiles[1].name = S_quoted
    /\ RefFind(encResult.body, RefDispositionName \o RefEscape(S_quoted) \o <<34, 13, 10>>, 1) > 0

\* the calls made so far on the arguments, the last one included
RefCalls == Append(encEarlier, [boundary |-> encBoundary, result |-> encResult])

RefAfterFilename(file) ==
    <<13, 10>> \o RefContentType
    \o (IF file.contentType = <<>> THEN RefOctetStream ELSE RefUtf8(file.contentType))
    \o <<13, 10, 13, 10>> \o file.data \o <<13, 10>>

\* the parts of the files from the n-th on, the n-th beginning at p, read
\* from the front: the filename parameter read as a quoted-string ends
\* where the rest of the part goes on as intended, its text has no CR and
\* no LF, and it is in the UTF-8'' form for a filename with a double quote
\* or a backslash
RECURSIVE RefFilenamesSafe(_, _, _)
RefFilenamesSafe(boundary, n, p) ==
    IF n > Len(encFiles)
    THEN RefMatchAt(encResult.body, <<45, 45>> \o boundary \o <<45, 45, 13, 10>>, p)
    ELSE \A start \in {p + Len(boundary) + 4 + Len(RefDispositionName)
                         + Len(RefEscape(RefUtf8(encFiles[n].name))) + 1
                         + Len(RefFilenameParam)} :
         \A q \in {RefQuoted(encResult.body, start, <<>>)} :
         \A raw \in {RefSlice(encResult.body, start, q.next - 2)} :
            /\ RefMatchAt(encResult.body, RefFilenameParam, start - Len(RefFilenameParam))
            /\ q.next > 0
            /\ \A m \in 1..Len(raw) : raw[m] \notin {13, 10}
            /\ RefMatchAt(encResult.body, RefAfterFilename(encFiles[n]), q.next)
            /\ (\E m \in 1..Len(encFiles[n].filename) : encFiles[n].filename[m] \in {34, 92})
                 => RefMatchAt(raw, RefUtf8Ticks, 1)
            /\ RefFilenamesSafe(boundary, n + 1, q.next + Len(RefAfterFilename(encFiles[n])))

====
